---- MODULE Spec2Model ----
(***************************************************************************)
(* Model of the code-intelligence index of SIDEVKICK (src/rag_system.py,   *)
(* src/utils.py): the chunker, the index store with its on-disk cache,     *)
(* search, and context assembly.                                           *)
(*                                                                         *)
(* Text is a sequence of tokens, each token a string standing for the      *)
(* characters it is written with (Len(token) characters).  A file's        *)
(* content is such a sequence, "\n" tokens separating its lines.           *)
(* Line numbers are 0-based as in the source.                              *)
(***************************************************************************)
EXTENDS Integers, Sequences, FiniteSets, TLC

VARIABLES
    cin,        \* harness: the arguments of the calls under study (for the chunker, a
                \* project snapshot, file_path -> content)
    cout,       \* harness: what the calls made on cin returned
    fs,         \* fs[p][path]: the file at path (relative to project root p)
    now,        \* the file system's clock (the newest modification time handed out)
    cache,      \* the four files of the cache directory .rag_cache
    inst,       \* inst[p]: the RAGSystem object last constructed for p
    registered, \* registered[p]: inst[p] is the entry of _rag_systems for p
    last,       \* the last operation and what it reported
    found       \* what the last search returned

chunkVars == <<cin, cout>>

sysVars == <<fs, now, cache, inst, registered, last, found>>

vars == <<cin, cout, fs, now, cache, inst, registered, last, found>>

----------------------------------------------------------------------------
(* Bounds of the inputs. *)

MaxLines == 3        \* longest file (in lines) for which every line sequence is enumerated
MaxLongLines == 56   \* longest uniform file (sliding-window cases of _chunk_generic)
MaxTime == 2         \* modification times run 0..MaxTime
MaxK == 2            \* search is called with k in 1..MaxK in the lifecycle model
MaxQueryK == 4       \* search is called with k in 1..MaxQueryK in the query model
MaxTokens == 30      \* max_tokens runs 0..MaxTokens in the query model
MaxChars == 3        \* longest text written by write_file_content in the calls model
MaxArgs == 2         \* longest command_parts given to run_git_command

----------------------------------------------------------------------------
(* Text helpers: Python's str operations on token sequences. *)

Min(a, b) == IF a < b THEN a ELSE b

Max(a, b) == IF a > b THEN a ELSE b

\* str.isspace() per token: the indentation token and the line break.
IsSpace(tok) == tok \in {"    ", "\n"}

RECURSIVE StrLen(_)
\* len(text), in characters.
StrLen(text) ==
    IF Len(text) = 0 THEN 0
    ELSE IF Len(text) = 1 THEN Len(text[1])
    ELSE StrLen(SubSeq(text, 1, Len(text) \div 2))
             + StrLen(SubSeq(text, Len(text) \div 2 + 1, Len(text)))

\* bool(text.strip())
HasText(text) == \E i \in 1..Len(text) : ~IsSpace(text[i])

\* The positions of the tokens of text that are not white space.
Solid(text) == {i \in 1..Len(text) : ~IsSpace(text[i])}

LStrip(text) ==
    IF Solid(text) = {} THEN <<>>
    ELSE SubSeq(text, CHOOSE i \in Solid(text) : \A j \in Solid(text) : i <= j, Len(text))

RStrip(text) ==
    IF Solid(text) = {} THEN <<>>
    ELSE SubSeq(text, 1, CHOOSE i \in Solid(text) : \A j \in Solid(text) : j <= i)

Strip(text) == RStrip(LStrip(text))

\* The positions of the line breaks of text, ascending.
Breaks(text) == SelectSeq([i \in 1..Len(text) |-> i], LAMBDA i : text[i] = "\n")

\* The lines that the line breaks at positions b cut text into.
CutAt(text, b) ==
    [k \in 1..(Len(b) + 1) |->
        SubSeq(text, (IF k = 1 THEN 0 ELSE b[k - 1]) + 1,
                     (IF k > Len(b) THEN Len(text) + 1 ELSE b[k]) - 1)]

\* content.split("\n"): never empty, "" splits to [""].
SplitLines(text) == CutAt(text, Breaks(text))

RECURSIVE JoinLines(_)
\* "\n".join(lines)
JoinLines(ls) ==
    IF Len(ls) = 0 THEN <<>>
    ELSE IF Len(ls) = 1 THEN ls[1]
    ELSE JoinLines(SubSeq(ls, 1, Len(ls) \div 2)) \o <<"\n">>
             \o JoinLines(SubSeq(ls, Len(ls) \div 2 + 1, Len(ls)))

\* lines[a:b] for 0 <= a, with Python's clamping of b.
Slice(ls, a, b) == SubSeq(ls, a + 1, Min(b, Len(ls)))

\* lines[i], 0-based.
At(ls, i) == ls[i + 1]

RECURSIVE FittingIn(_, _, _, _)
\* The largest j in lo..hi whose first j tokens of text fit into n characters
\* (the first lo tokens do).
FittingIn(text, n, lo, hi) ==
    IF lo = hi THEN lo
    ELSE IF StrLen(SubSeq(text, 1, (lo + hi + 1) \div 2)) <= n
         THEN FittingIn(text, n, (lo + hi + 1) \div 2, hi)
         ELSE FittingIn(text, n, lo, (lo + hi + 1) \div 2 - 1)

\* The number of leading tokens of text that fit whole into n characters.
Fitting(text, n) == FittingIn(text, n, 0, Len(text))

\* What is cut of text after its first j tokens when n characters are taken.
Cut(text, n, j) ==
    IF j = Len(text) \/ StrLen(SubSeq(text, 1, j)) = n
    THEN [whole |-> SubSeq(text, 1, j), part |-> "", kept |-> 0]
    ELSE [whole |-> SubSeq(text, 1, j), part |-> text[j + 1],
          kept |-> n - StrLen(SubSeq(text, 1, j))]

\* text[:n]: the whole tokens that fit, then the cut token with the number of
\* its characters kept (part = "" when the cut falls between tokens).
TakeChars(text, n) == Cut(text, n, Fitting(text, n))

----------------------------------------------------------------------------
(* Paths: a path is a sequence of tokens; its last token carries the suffix. *)

\* Path(file_path).suffix.lower() of the file names the model uses.
Suffix(file_path) ==
    LET name == file_path[Len(file_path)] IN
    CASE name \in {"a.py", "b.py", "m1.py", "m2.py", "m3.py", "m4.py", "m5.py", "g.py"} -> ".py"
      [] name \in {"a.js", "b.js"} -> ".js"
      [] name \in {"a.go"} -> ".go"
      [] name \in {"a.css", "Button.css"} -> ".css"
      [] name \in {"Button.tsx"} -> ".tsx"
      [] name \in {"a.md", "b.md"} -> ".md"
      [] name \in {"a.rs"} -> ".rs"
      [] OTHER -> ""

\* Path(file_path).name: what follows the last separator.
FileName(file_path) ==
    LET seps == {i \in 1..Len(file_path) : file_path[i] = "/"}
        from == IF seps = {} THEN 1 ELSE 1 + CHOOSE i \in seps : \A j \in seps : j <= i
    IN  SubSeq(file_path, from, Len(file_path))

detect_language(file_path) ==
    CASE Suffix(file_path) = ".py" -> "python"
      [] Suffix(file_path) = ".js" -> "javascript"
      [] Suffix(file_path) = ".tsx" -> "typescript"
      [] Suffix(file_path) = ".go" -> "golang"
      [] Suffix(file_path) = ".css" -> "css"
      [] Suffix(file_path) = ".md" -> "markdown"
      [] Suffix(file_path) = ".rs" -> "rust"
      [] OTHER -> "unknown"

----------------------------------------------------------------------------
(* CodeAnalyzer and CodeChunker.  The token "def" stands for the keyword a  *)
(* language's boundary detector recognises at the start of a line (def or   *)
(* class for ast, function/const x =/class for the JavaScript regex, func   *)
(* for Go, a selector for CSS); "{" and "}" are the brace characters.       *)

\* A line on which a definition starts: ^\s*(def|function|func|...).
StartsDef(line) == LET s == LStrip(line) IN s # <<>> /\ s[1] = "def"

\* len(line) - len(line.lstrip())
Indent(line) == StrLen(line) - StrLen(LStrip(line))

\* The bracket depth after a text that is two texts l and r in a row: the
\* lowest depth reached on the way, and the depth at the end.
DepthOfBoth(l, r) == [low |-> Min(l.low, l.sum + r.low), sum |-> l.sum + r.sum]

RECURSIVE BraceDepth(_)
BraceDepth(text) ==
    IF Len(text) = 0 THEN [low |-> 0, sum |-> 0]
    ELSE IF Len(text) = 1
         THEN (IF text[1] = "{" THEN [low |-> 0, sum |-> 1]
               ELSE IF text[1] = "}" THEN [low |-> -1, sum |-> -1]
               ELSE [low |-> 0, sum |-> 0])
    ELSE DepthOfBoth(BraceDepth(SubSeq(text, 1, Len(text) \div 2)),
                     BraceDepth(SubSeq(text, Len(text) \div 2 + 1, Len(text))))

\* Every bracket closes one that is open, and none is left open.
BraceDepthOk(text) == BraceDepth(text).low >= 0 /\ BraceDepth(text).sum = 0

\* ast.parse(content) succeeds (no SyntaxError): brackets balance and the first
\* statement is not indented.
AstParses(content) ==
    /\ BraceDepthOk(content)
    /\ LET ls == SplitLines(content)
           first == {i \in 1..Len(ls) : HasText(ls[i])}
       IN \A i \in first : (\A j \in first : i <= j) => Indent(ls[i]) = 0

\* analysis["functions"]: one name per definition keyword of the text.
Functions(content) == SelectSeq(content, LAMBDA tok : tok = "def")

\* ", ".join(names[:3]) for names that are one character long.
JoinNames(names) ==
    LET n == Min(Len(names), 3) IN
    IF n = 0 THEN <<>> ELSE [i \in 1..(2 * n - 1) |-> IF i % 2 = 1 THEN "f" ELSE ", "]

PreviewChars == 100

_generate_description(content, file_path, chunk_type) ==
    LET kind == CASE chunk_type = "function" /\ Functions(content) # <<>> ->
                        <<". ", "containing function(s): ">> \o JoinNames(Functions(content))
                  [] chunk_type = "module" -> <<". ", "module-level code">>
                  [] chunk_type = "css_rule" -> <<". ", "CSS rule">>
                  [] OTHER -> <<>>
        stripped == Strip(content)
        preview == TakeChars(stripped, PreviewChars)
    IN  [ head |-> <<"Code from ">> \o FileName(file_path) \o kind
                     \o <<". ", "in ", detect_language(file_path), ". ", "Content: ">>,
          preview |-> preview,
          more |-> StrLen(stripped) > PreviewChars ]

\* len(description)
DescLen(d) ==
    StrLen(d.head) + StrLen(d.preview.whole) + d.preview.kept + (IF d.more THEN 3 ELSE 0)

\* hashlib.md5(s.encode()).hexdigest(): one digest per string (no collision
\* between different strings).
Md5(s) == [md5 |-> s]

IdChars == 100

\* A digest of the whole content instead of its first 100 characters.
ChunkIdOfWholeContent(file_path, start_line, end_line, content) ==
    Md5([ str |-> file_path \o <<":", ToString(start_line), ":", ToString(end_line), ":">>
                    \o content,
          part |-> "", kept |-> 0 ])

\* The id of a fragment: md5 of f"{file_path}:{start_line}:{end_line}:{content[:100]}".
ChunkId(file_path, start_line, end_line, content) ==
    LET pre == TakeChars(content, IdChars) IN
    Md5([ str |-> file_path \o <<":", ToString(start_line), ":", ToString(end_line), ":">>
                    \o pre.whole,
          part |-> pre.part, kept |-> pre.kept ])

_create_chunk(content, file_path, start_line, end_line, chunk_type) ==
    [ content |-> content,
      file_path |-> file_path,
      chunk_id |-> ChunkId(file_path, start_line, end_line, content),
      start_line |-> start_line,
      end_line |-> end_line,
      chunk_type |-> chunk_type,
      description |-> _generate_description(content, file_path, chunk_type),
      language |-> detect_language(file_path) ]

WindowLines == 50

WindowOverlap == 5

RECURSIVE GenericFrom(_, _, _, _, _)
GenericFrom(lines, file_path, i, chunk_size, acc) ==
    IF i >= Len(lines) THEN acc
    ELSE LET end == Min(i + chunk_size, Len(lines))
             chunk_content == JoinLines(Slice(lines, i, end))
             new == IF HasText(chunk_content)
                    THEN <<_create_chunk(chunk_content, file_path, i, end - 1, "block")>>
                    ELSE <<>>
         IN GenericFrom(lines, file_path, i + (chunk_size - WindowOverlap), chunk_size,
                        acc \o new)

\* A chunker's result: the fragments, or raised = TRUE when it raises.
_chunk_generic(content, file_path) ==
    LET lines == SplitLines(content)
        chunk_size == Min(WindowLines, Len(lines))
    IN  IF chunk_size - WindowOverlap = 0
        THEN [raised |-> TRUE, chunks |-> <<>>]       \* range() arg 3 must not be zero
        ELSE IF chunk_size - WindowOverlap < 0
        THEN [raised |-> FALSE, chunks |-> <<>>]      \* range() with a negative step is empty
        ELSE [raised |-> FALSE,
              chunks |-> GenericFrom(lines, file_path, 0, chunk_size, <<>>)]

RECURSIVE PyEndFrom(_, _, _)
PyEndFrom(lines, i, start_indent) ==
    IF i >= Len(lines) THEN Len(lines) - 1
    ELSE IF HasText(At(lines, i)) /\ Indent(At(lines, i)) <= start_indent THEN i - 1
    ELSE PyEndFrom(lines, i + 1, start_indent)

_find_python_block_end(lines, start_line) ==
    IF start_line >= Len(lines) THEN Len(lines) - 1
    ELSE PyEndFrom(lines, start_line + 1, Indent(At(lines, start_line)))

RECURSIVE BraceEndFrom(_, _, _, _, _, _)
\* The character loop of the brace counters: pos is the next character of line i.
\* need_open is the in_block requirement (absent in _find_css_rule_end).
BraceEndFrom(lines, i, pos, brace_count, in_block, need_open) ==
    IF i >= Len(lines) THEN Len(lines) - 1
    ELSE IF pos > Len(At(lines, i))
         THEN BraceEndFrom(lines, i + 1, 1, brace_count, in_block, need_open)
    ELSE LET ch == At(lines, i)[pos] IN
         IF ch = "{"
         THEN BraceEndFrom(lines, i, pos + 1, brace_count + 1, TRUE, need_open)
         ELSE IF ch = "}"
         THEN IF (in_block \/ ~need_open) /\ brace_count - 1 = 0 THEN i
              ELSE BraceEndFrom(lines, i, pos + 1, brace_count - 1, in_block, need_open)
         ELSE BraceEndFrom(lines, i, pos + 1, brace_count, in_block, need_open)

_find_js_block_end(lines, start_line) == BraceEndFrom(lines, start_line, 1, 0, FALSE, TRUE)

_find_go_block_end(lines, start_line) == BraceEndFrom(lines, start_line, 1, 0, FALSE, TRUE)

_find_css_rule_end(lines, start_line) == BraceEndFrom(lines, start_line, 1, 0, FALSE, FALSE)

BlockEnd(language, lines, start) ==
    CASE language = "python" -> _find_python_block_end(lines, start)
      [] language = "javascript" -> _find_js_block_end(lines, start)
      [] language = "golang" -> _find_go_block_end(lines, start)
      [] OTHER -> _find_css_rule_end(lines, start)

\* The 0-based numbers of the lines on which a definition starts, ascending.
DefStarts(lines) ==
    SelectSeq([k \in 1..Len(lines) |-> k - 1], LAMBDA i : StartsDef(At(lines, i)))

RECURSIVE BlockLoop(_, _, _, _, _, _, _)
\* The loop shared by _chunk_python, _chunk_javascript, _chunk_golang and
\* _chunk_css: filler before a block when it has text, then the block.
BlockLoop(language, lines, file_path, starts, last_end, chunks, types) ==
    IF starts = <<>>
    THEN LET rest == JoinLines(Slice(lines, last_end, Len(lines))) IN
         IF last_end < Len(lines) /\ HasText(rest)
         THEN Append(chunks, _create_chunk(rest, file_path, last_end, Len(lines) - 1,
                                           types.filler))
         ELSE chunks
    ELSE LET start == Head(starts)
             module_content == JoinLines(Slice(lines, last_end, start))
             filler == IF start > last_end /\ HasText(module_content)
                       THEN <<_create_chunk(module_content, file_path, last_end, start - 1,
                                            types.filler)>>
                       ELSE <<>>
             end == BlockEnd(language, lines, start)
             block == _create_chunk(JoinLines(Slice(lines, start, end + 1)), file_path,
                                    start, end, types.block)
         IN BlockLoop(language, lines, file_path, Tail(starts), end + 1,
                      (chunks \o filler) \o <<block>>, types)

_chunk_python(content, file_path) ==
    IF AstParses(content)
    THEN [raised |-> FALSE,
          chunks |-> BlockLoop("python", SplitLines(content), file_path,
                               DefStarts(SplitLines(content)), 0, <<>>,
                               [block |-> "function", filler |-> "module"])]
    ELSE _chunk_generic(content, file_path)

\* `if not chunks: return self._chunk_generic(content, file_path)`
OrGeneric(chunks, content, file_path) ==
    IF chunks # <<>> THEN [raised |-> FALSE, chunks |-> chunks]
    ELSE _chunk_generic(content, file_path)

_chunk_javascript(content, file_path) ==
    OrGeneric(BlockLoop("javascript", SplitLines(content), file_path,
                        DefStarts(SplitLines(content)), 0, <<>>,
                        [block |-> "function", filler |-> "module"]),
              content, file_path)

_chunk_golang(content, file_path) ==
    OrGeneric(BlockLoop("golang", SplitLines(content), file_path,
                        DefStarts(SplitLines(content)), 0, <<>>,
                        [block |-> "function", filler |-> "module"]),
              content, file_path)

_chunk_css(content, file_path) ==
    IF DefStarts(SplitLines(content)) = <<>> THEN _chunk_generic(content, file_path)
    ELSE [raised |-> FALSE,
          chunks |-> BlockLoop("css", SplitLines(content), file_path,
                               DefStarts(SplitLines(content)), 0, <<>>,
                               [block |-> "css_rule", filler |-> "css_block"])]

chunk_by_functions(content, file_path) ==
    CASE detect_language(file_path) = "python" -> _chunk_python(content, file_path)
      [] detect_language(file_path) \in {"javascript", "typescript"} ->
             _chunk_javascript(content, file_path)
      [] detect_language(file_path) = "golang" -> _chunk_golang(content, file_path)
      [] detect_language(file_path) = "css" -> _chunk_css(content, file_path)
      [] OTHER -> _chunk_generic(content, file_path)

----------------------------------------------------------------------------
(* RAGSystem: the in-memory index, the cache directory, index_project.      *)

Projects == {"A"}

\* The absolute path of a project root, as the tokens of its directories.
Root(p) == <<"home", "/", p, "/">>

ignore_dirs ==
    {".git", "__pycache__", ".vscode", ".idea", "node_modules", "venv", ".env", "build",
     "dist", ".rag_cache", "vendor", "target", ".next", "coverage"}

ignore_files == {".DS_Store", ".gitignore", "package-lock.json", "yarn.lock", "go.sum"}

ignore_extensions ==
    {".pyc", ".log", ".swp", ".swo", ".tmp", ".bak", ".min.js", ".min.css", ".map", ".lock"}

supported_extensions ==
    {".py", ".js", ".ts", ".jsx", ".tsx", ".go", ".html", ".htm", ".css", ".scss", ".sass",
     ".less", ".json", ".yaml", ".yml", ".md", ".txt"}

\* file_path is absolute.  (No file of the model is hidden or larger than 1MB.)
_should_ignore_file(file_path) ==
    \/ \E i \in 1..(Len(file_path) - 1) : file_path[i] \in ignore_dirs
    \/ \E name \in ignore_files : FileName(file_path) = <<name>>
    \/ Suffix(file_path) \in ignore_extensions

\* The files rglob("*") yields that pass `f.is_file() and not _should_ignore_file(f)`.
Tracked(files, root) ==
    {path \in DOMAIN files : files[path].exists /\ ~_should_ignore_file(root \o path)}

\* max(os.path.getmtime(f) for f in tracked); the caller handles the empty case.
MaxMtime(files, paths) ==
    CHOOSE m \in {files[path].mtime : path \in paths} :
        \A path \in paths : files[path].mtime <= m

\* The sequences that list every element of S once.
Orders(S) ==
    {o \in [1..Cardinality(S) -> S] : \A i, j \in DOMAIN o : o[i] = o[j] => i = j}

\* Whether path x comes before path y in the directory listing (by name).
Before(x, y) == x # y /\ (x = <<"a.py">> \/ x = <<"a.js">> \/ (Len(x) < Len(y) /\ y # <<"a.py">>))

\* The order in which project_path.rglob("*") yields the paths of S: the
\* listing order of the directory, the same at every pass.
RglobOrder(S) ==
    CHOOSE o \in Orders(S) : \A i, j \in DOMAIN o : i < j => ~Before(o[j], o[i])

\* What index_project keeps of one file's chunking: nothing when it raised
\* (the per-file handler logs the error and goes on).
Kept(r) == IF r.raised THEN <<>> ELSE r.chunks

RECURSIVE CollectUntilRaise(_, _)
\* index_project's first loop if one handler were around the whole loop
\* instead of one around each file: the loop ends at the first file whose
\* chunking raises.
CollectUntilRaise(files, order) ==
    IF order = <<>> THEN <<>>
    ELSE IF ~HasText(files[Head(order)].content) THEN CollectUntilRaise(files, Tail(order))
    ELSE IF chunk_by_functions(files[Head(order)].content, Head(order)).raised THEN <<>>
    ELSE chunk_by_functions(files[Head(order)].content, Head(order)).chunks
             \o CollectUntilRaise(files, Tail(order))

RECURSIVE Collect(_, _)
\* index_project's first loop: all_chunks, over the files in rglob order.  A
\* file without text is skipped; so is one whose chunking raises.
Collect(files, order) ==
    IF order = <<>> THEN <<>>
    ELSE (IF HasText(files[Head(order)].content)
          THEN Kept(chunk_by_functions(files[Head(order)].content, Head(order)))
          ELSE <<>>)
             \o Collect(files, Tail(order))

\* embedder.encode(f"{description}\n\n{content}"): the vector of a fragment's text.
Embed(chunk) == [text |-> <<chunk.description, chunk.content>>]

\* The positions at which an embedding may fail: none, the first, all.
Failures == {"none", "first", "all"}

Fails(failing, i) == failing = "all" \/ (failing = "first" /\ i = 1)

RECURSIVE EmbedLoop(_, _, _, _)
\* index_project's second loop; failing tells the positions of all_chunks at
\* which creating or embedding the fragment raises (the fragment is dropped).
EmbedLoop(all_chunks, i, failing, acc) ==
    IF i > Len(all_chunks) THEN acc
    ELSE IF Fails(failing, i) THEN EmbedLoop(all_chunks, i + 1, failing, acc)
    ELSE EmbedLoop(all_chunks, i + 1, failing,
                   [ chunks |-> (all_chunks[i].chunk_id :> all_chunks[i]) @@ acc.chunks,
                     embeddings |-> Append(acc.embeddings, Embed(all_chunks[i])),
                     chunk_ids |-> Append(acc.chunk_ids, all_chunks[i].chunk_id) ])

NoIndex == [built |-> FALSE, vecs |-> <<>>]

\* A RAGSystem object as __init__ leaves it before _load_cache.
NewInst == [exists |-> TRUE, chunks |-> <<>>, index |-> NoIndex, chunk_ids |-> <<>>]

NoInst == [exists |-> FALSE, chunks |-> <<>>, index |-> NoIndex, chunk_ids |-> <<>>]

\* A file of the cache directory: present, whether it is on disk; corrupt,
\* whether reading it raises (truncated or overwritten with other bytes).
Absent == [present |-> FALSE, corrupt |-> FALSE, data |-> <<>>]

NoMeta == [present |-> FALSE, corrupt |-> FALSE, project_mtime |-> 0, chunk_ids |-> <<>>]

EmptyCache == [chunks |-> Absent, index |-> Absent, deps |-> Absent, meta |-> NoMeta]

\* The cache directory after self._save_cache().  max() over no tracked file
\* raises; the handler logs it and metadata.json is not written.
_save_cache(self, c, files, root) ==
    LET c1 == [c EXCEPT !.chunks = [present |-> TRUE, corrupt |-> FALSE,
                                    data |-> self.chunks]]
        c2 == IF self.index.built
              THEN [c1 EXCEPT !.index = [present |-> TRUE, corrupt |-> FALSE,
                                         data |-> self.index.vecs]]
              ELSE c1
        c3 == [c2 EXCEPT !.deps = [present |-> TRUE, corrupt |-> FALSE, data |-> <<>>]]
    IN  IF Tracked(files, root) = {} THEN c3
        ELSE [c3 EXCEPT !.meta = [ present |-> TRUE, corrupt |-> FALSE,
                                   project_mtime |-> MaxMtime(files, Tracked(files, root)),
                                   chunk_ids |-> self.chunk_ids ]]

\* _load_cache without the comparison of the persisted timestamp.
LoadCacheOfAnyAge(self, c, files, root) ==
    IF /\ c.chunks.present /\ c.index.present /\ c.meta.present
       /\ Tracked(files, root) # {}
    THEN [ok |-> TRUE,
          self |-> [self EXCEPT !.chunks = c.chunks.data,
                                !.index = [built |-> TRUE, vecs |-> c.index.data],
                                !.chunk_ids = c.meta.chunk_ids]]
    ELSE [ok |-> FALSE, self |-> self]

\* The three files _load_cache asks for exist, metadata.json parses, and the
\* timestamp it records is not older than the newest tracked file (max() over
\* no tracked file raises).
CacheUsable(c, files, root) ==
    /\ c.chunks.present /\ c.index.present /\ c.meta.present
    /\ ~c.meta.corrupt
    /\ Tracked(files, root) # {}
    /\ c.meta.project_mtime >= MaxMtime(files, Tracked(files, root))

\* self._load_cache(): [ok |-> its return value, self |-> the object afterwards].
\* The fields are assigned one by one as the files are read: chunks.pkl,
\* index.faiss with the id list, then dependencies.pkl if it exists.  A read
\* that raises ends the load in the handler, which returns False and leaves
\* what was assigned before.
_load_cache(self, c, files, root) ==
    IF ~CacheUsable(c, files, root) \/ c.chunks.corrupt
    THEN [ok |-> FALSE, self |-> self]
    ELSE IF c.index.corrupt
    THEN [ok |-> FALSE, self |-> [self EXCEPT !.chunks = c.chunks.data]]
    ELSE [ok |-> ~(c.deps.present /\ c.deps.corrupt),
          self |-> [self EXCEPT !.chunks = c.chunks.data,
                                !.index = [built |-> TRUE, vecs |-> c.index.data],
                                !.chunk_ids = c.meta.chunk_ids]]

\* The end of index_project: the maps and the id list are replaced; the
\* index only `if embeddings:`.
Replaced(self, acc, all_chunks) ==
    [ self |-> [self EXCEPT !.chunks = acc.chunks,
                            !.chunk_ids = acc.chunk_ids,
                            !.index = IF acc.embeddings # <<>>
                                      THEN [built |-> TRUE, vecs |-> acc.embeddings]
                                      ELSE self.index],
      all_chunks |-> all_chunks ]

Rebuilt(self, all_chunks, failing) ==
    Replaced(self,
             EmbedLoop(all_chunks, 1, failing,
                       [chunks |-> <<>>, embeddings |-> <<>>, chunk_ids |-> <<>>]),
             all_chunks)

\* self.index_project() up to the save: the object afterwards and all_chunks.
index_project(self, files, root, order, failing) ==
    Rebuilt(self, Collect(files, order), failing)

\* The paths index_project chunks: tracked, with a supported extension.
Indexable(files, root) ==
    {path \in Tracked(files, root) : Suffix(path) \in supported_extensions}


\* self.invalidate_cache(): the object afterwards (the cache files are unlinked).
invalidate_cache(self) == [self EXCEPT !.chunks = <<>>, !.index = NoIndex, !.chunk_ids = <<>>]

----------------------------------------------------------------------------
(* RAGSystem.search.  The query is given by what index.search makes of it:  *)
(* rank lists the ordinals of the index's vectors by decreasing inner       *)
(* product, score[i] is the inner product of the i-th of them.  Scores are  *)
(* counted in halves, so that the boost by 1.5 stays an integer.            *)

Scores == {-2, 0, 2}

BoostTimesTwo == 3       \* adjusted_score *= 1.5

NoLabelScore == -1000    \* the score faiss reports beside the label -1

NoPath == <<>>           \* current_file = None

\* index.search(query, kk): the kk best [idx, score], idx 0-based, padded with
\* the label -1 when the index holds fewer than kk vectors.
FaissSearch(q, ntotal, kk) ==
    [i \in 1..kk |-> IF i <= ntotal THEN [idx |-> q.rank[i] - 1, score |-> q.score[i]]
                     ELSE [idx |-> -1, score |-> NoLabelScore]]

\* The number of results so far that are fragments of file_path.
FileCount(results, file_path) ==
    Cardinality({j \in 1..Len(results) : results[j].chunk.file_path = file_path})

\* No limit on the fragments of one file.
NoCap(results, file_path) == TRUE

\* `if file_count < 3`: at most 3 fragments of one file are taken.
UnderCap(results, file_path) == FileCount(results, file_path) < 3

RECURSIVE SearchLoop(_, _, _, _, _, _)
\* The loop over zip(scores[0], indices[0]); results hold [chunk, adjusted],
\* adjusted counted in halves.  KeyError on self.chunks[chunk_id] raises.
SearchLoop(self, hits, i, k, current_file, results) ==
    IF i > Len(hits) THEN [raised |-> FALSE, results |-> results]
    ELSE IF hits[i].idx >= Len(self.chunk_ids)
         THEN SearchLoop(self, hits, i + 1, k, current_file, results)
    ELSE LET pos == IF hits[i].idx >= 0 THEN hits[i].idx + 1
                    ELSE Len(self.chunk_ids) + 1 + hits[i].idx
             chunk_id == self.chunk_ids[pos]
         IN IF chunk_id \notin DOMAIN self.chunks THEN [raised |-> TRUE, results |-> <<>>]
            ELSE LET chunk == self.chunks[chunk_id]
                     adjusted == IF current_file # NoPath /\ chunk.file_path = current_file
                                 THEN BoostTimesTwo * hits[i].score
                                 ELSE 2 * hits[i].score
                     next == IF UnderCap(results, chunk.file_path)
                             THEN Append(results, [chunk |-> chunk, adjusted |-> adjusted])
                             ELSE results
                 IN IF Len(next) >= k THEN [raised |-> FALSE, results |-> next]
                    ELSE SearchLoop(self, hits, i + 1, k, current_file, next)

RECURSIVE SortDesc(_)
\* results.sort(key=adjusted, reverse=True): stable, equal keys keep their order.
SortDesc(results) ==
    IF results = <<>> THEN <<>>
    ELSE LET best == CHOOSE i \in 1..Len(results) :
                        /\ \A j \in 1..Len(results) : results[j].adjusted <= results[i].adjusted
                        /\ \A j \in 1..(i - 1) : results[j].adjusted < results[i].adjusted
         IN <<results[best]>>
                \o SortDesc(SubSeq(results, 1, best - 1) \o SubSeq(results, best + 1, Len(results)))

\* `results.sort(...)` and `return [chunk for chunk, _ in results[:k]]`.
TopK(loop, k) ==
    IF loop.raised THEN [raised |-> TRUE, result |-> <<>>]
    ELSE [raised |-> FALSE,
          result |-> [i \in 1..Min(k, Len(loop.results)) |-> SortDesc(loop.results)[i].chunk]]

\* search past its first statement: the index is searched, the hits filtered.
SearchIndex(self, q, k, current_file) ==
    TopK(SearchLoop(self,
                    FaissSearch(q, Len(self.index.vecs), Min(k * 3, Len(self.chunk_ids))),
                    1, k, current_file, <<>>),
         k)

\* search without `if not self.index or not self.chunks: return []`:
\* None has no attribute search.
SearchUnguarded(self, q, k, current_file) ==
    IF ~self.index.built THEN [raised |-> TRUE, result |-> <<>>]
    ELSE SearchIndex(self, q, k, current_file)

\* self.search(query, k, current_file): [raised, result], result the fragments.
search(self, q, k, current_file) ==
    IF ~self.index.built \/ self.chunks = <<>> THEN [raised |-> FALSE, result |-> <<>>]
    ELSE SearchIndex(self, q, k, current_file)

\* Every query against an index of n vectors: a ranking and its scores.
Queries(n) ==
    {[rank |-> r, score |-> sc] :
        r \in Orders(1..n),
        sc \in {f \in [1..n -> Scores] : \A i \in 1..(n - 1) : f[i] >= f[i + 1]}}

\* The queries of the lifecycle model: each vector first in turn, one score.
PlainQueries(n) ==
    {[rank |-> [i \in 1..n |-> ((i + d - 1) % n) + 1], score |-> [i \in 1..n |-> 2]] :
        d \in 0..Max(n - 1, 0)}

----------------------------------------------------------------------------
(* get_relevant_context_smart.  A query is what the embedder and faiss make *)
(* of its text (a ranking and scores) and whether the text holds one of the *)
(* editing words, and, for a query with one of the interface words, the     *)
(* files get_ui_related_files finds for it (ui_files; none for any other    *)
(* query).  The set files_for_chunks, to which the function adds the other  *)
(* UI files, the style sheets of referenced CSS classes and the dependency  *)
(* neighbours, is written but never read by it.                             *)

SearchK == 15        \* self.search(user_query, k=15, current_file=current_file)

TokenChars == 4      \* the budget is max_tokens * 4 characters

\* len(chunk.content) + len(chunk.description)
ChunkChars(chunk) == StrLen(chunk.content) + DescLen(chunk.description)

\* files_for_full_content if the editing words of the query were not looked at.
FilesForFullContentOfNoQuery(relevant_chunks, edit) == {}

\* files_for_full_content after the loop over relevant_chunks: with an
\* editing word in the query, the file of every fragment found.
FilesForFullContent(relevant_chunks, edit) ==
    IF edit THEN {relevant_chunks[i].file_path : i \in 1..Len(relevant_chunks)} ELSE {}

\* The suffixes of the "main UI files" that are added for full content.
ui_extensions == {".tsx", ".jsx", ".js", ".ts"}

\* files_for_full_content before the loops that fill the context: the UI
\* files with a script suffix are added.
FullContentSet(relevant_chunks, edit, ui_files) ==
    FilesForFullContent(relevant_chunks, edit)
        \cup {file \in ui_files : Suffix(file) \in ui_extensions}

RECURSIVE FullFileLoop(_, _, _, _)
\* `for file_path in files_for_full_content`, in the set's iteration order:
\* a file that exists is read and taken if it fits.  tested collects the
\* sizes of the files that were tested for fit.
FullFileLoop(files, order, budget, acc) ==
    IF order = <<>> THEN acc
    ELSE IF ~(Head(order) \in DOMAIN files /\ files[Head(order)].exists)
         THEN FullFileLoop(files, Tail(order), budget, acc)
    ELSE IF acc.total_chars + StrLen(files[Head(order)].content) <= budget
         THEN FullFileLoop(files, Tail(order), budget,
                  [ total_chars |-> acc.total_chars + StrLen(files[Head(order)].content),
                    full |-> Append(acc.full, Head(order)),
                    tested |-> acc.tested \cup {StrLen(files[Head(order)].content)} ])
         ELSE FullFileLoop(files, Tail(order), budget,
                  [acc EXCEPT !.tested = @ \cup {StrLen(files[Head(order)].content)}])

RECURSIVE ChunkLoopPastMisfit(_, _, _, _, _)
\* The loop over relevant_chunks if `break` were `continue`: a fragment that
\* does not fit is passed over and the fragments after it are still tried.
ChunkLoopPastMisfit(relevant_chunks, i, full_set, budget, acc) ==
    IF i > Len(relevant_chunks) THEN acc
    ELSE IF relevant_chunks[i].file_path \in full_set
         THEN ChunkLoopPastMisfit(relevant_chunks, i + 1, full_set, budget, acc)
    ELSE IF acc.total_chars + ChunkChars(relevant_chunks[i]) > budget
         THEN ChunkLoopPastMisfit(relevant_chunks, i + 1, full_set, budget, acc)
    ELSE ChunkLoopPastMisfit(relevant_chunks, i + 1, full_set, budget,
             [ total_chars |-> acc.total_chars + ChunkChars(relevant_chunks[i]),
               parts |-> Append(acc.parts, relevant_chunks[i]) ])

RECURSIVE ChunkLoop(_, _, _, _, _)
\* `for chunk in relevant_chunks`: fragments of files outside
\* files_for_full_content, until one does not fit (break).
ChunkLoop(relevant_chunks, i, full_set, budget, acc) ==
    IF i > Len(relevant_chunks) THEN acc
    ELSE IF relevant_chunks[i].file_path \in full_set
         THEN ChunkLoop(relevant_chunks, i + 1, full_set, budget, acc)
    ELSE IF acc.total_chars + ChunkChars(relevant_chunks[i]) > budget THEN acc
    ELSE ChunkLoop(relevant_chunks, i + 1, full_set, budget,
             [ total_chars |-> acc.total_chars + ChunkChars(relevant_chunks[i]),
               parts |-> Append(acc.parts, relevant_chunks[i]) ])

\* len(f"\n# {TYPE} ({start_line}-{end_line}): {description}\n")
HeaderLen(chunk) ==
    Len("\n# ") + Len(chunk.chunk_type) + Len(" (") + Len(ToString(chunk.start_line))
        + Len("-") + Len(ToString(chunk.end_line)) + Len("): ")
        + DescLen(chunk.description) + Len("\n")

RECURSIVE PartsLen(_)
\* The characters that the fragments parts add to "\n".join(content_parts).
PartsLen(parts) ==
    IF parts = <<>> THEN 0
    ELSE Len("\n") + HeaderLen(Head(parts)) + StrLen(Head(parts).content)
             + PartsLen(Tail(parts))

\* The fragments of parts that are of file_path.
PartsOf(parts, file_path) == SelectSeq(parts, LAMBDA chunk : chunk.file_path = file_path)

RECURSIVE KeysOf(_, _)
\* list(chunk_contents.keys()): the files of parts, each once, in the order
\* in which they first occur.
KeysOf(parts, seen) ==
    IF parts = <<>> THEN <<>>
    ELSE IF Head(parts).file_path \in seen THEN KeysOf(Tail(parts), seen)
    ELSE <<Head(parts).file_path>> \o KeysOf(Tail(parts), seen \cup {Head(parts).file_path})

\* len(all_file_contents[file_path]) for a file given in full.
FullLen(files, file_path) ==
    Len("[FULL FILE - Ready for editing]") + Len("\n") + StrLen(files[file_path].content)

\* len(all_file_contents[file_path]) for a file given by fragments.
PartialLen(parts, file_path) ==
    Len("[PARTIAL CONTEXT - Read-only, request full file to edit]")
        + PartsLen(PartsOf(parts, file_path))

\* The dictionary the function returns; of all_file_contents, the length of
\* each value.
ContextOf(files, full, chunked) ==
    [ file_paths |-> full.full \o KeysOf(chunked.parts, {}),
      full_files |-> full.full,
      partial_files |-> KeysOf(chunked.parts, {}),
      all_file_contents |->
          [file_path \in {full.full[i] : i \in 1..Len(full.full)}
                            \cup {chunked.parts[i].file_path : i \in 1..Len(chunked.parts)} |->
              IF \E i \in 1..Len(full.full) : full.full[i] = file_path
              THEN FullLen(files, file_path)
              ELSE PartialLen(chunked.parts, file_path)],
      estimated_tokens |-> chunked.total_chars \div TokenChars,
      tested |-> full.tested ]

\* The two loops if the second passed over the files given in full only,
\* and not over every file of files_for_full_content.
PackedAroundFullFiles(files, relevant_chunks, full_set, budget, full) ==
    ContextOf(files, full,
              ChunkLoop(relevant_chunks, 1, {full.full[i] : i \in 1..Len(full.full)}, budget,
                        [total_chars |-> full.total_chars, parts |-> <<>>]))

\* The two loops, the second starting from the total of the first.
Packed(files, relevant_chunks, full_set, budget, full) ==
    ContextOf(files, full,
              ChunkLoop(relevant_chunks, 1, full_set, budget,
                        [total_chars |-> full.total_chars, parts |-> <<>>]))

\* The function after its call of search, which returned relevant_chunks.
ContextFor(files, relevant_chunks, edit, ui_files, max_tokens, order) ==
    Packed(files, relevant_chunks, FullContentSet(relevant_chunks, edit, ui_files),
           max_tokens * TokenChars,
           FullFileLoop(files, order, max_tokens * TokenChars,
                        [total_chars |-> 0, full |-> <<>>, tested |-> {}]))

\* What search returned, if it did, made into the function's result.
ContextAfter(files, r, edit, ui_files, max_tokens, order) ==
    IF r.raised THEN [raised |-> TRUE, result |-> <<>>]
    ELSE [raised |-> FALSE,
          result |-> ContextFor(files, r.result, edit, ui_files, max_tokens, order)]

\* self.get_relevant_context_smart(user_query, current_file, max_tokens) on
\* the files of the project; order is the iteration order of the set
\* files_for_full_content.
get_relevant_context_smart(self, files, q, edit, ui_files, current_file, max_tokens, order) ==
    ContextAfter(files, search(self, q, SearchK, current_file), edit, ui_files, max_tokens,
                 order)

----------------------------------------------------------------------------
(* get_rag_system and invalidate_rag_cache (src/utils.py), and the life of  *)
(* a project: files are written and deleted, the process restarts, indexes  *)
(* are built, loaded, searched and invalidated.                             *)

ProjectPaths == {<<"a.py">>, <<"b.py">>}

PyTwo == <<"def", "{", "}", "\n", "def", "{", "}">>    \* two one-line functions
PyJunk == <<"}">>                                      \* a SyntaxError, under 5 lines
PyFour == <<"def", "{", "}", "\n", "def", "{", "}", "\n",
            "def", "{", "}", "\n", "def", "{", "}">>  \* four one-line functions
PyOne == <<"x">>                                       \* one statement

\* The contents a file of the project may be given.
FileChoices(path) ==
    IF path = <<"a.py">> THEN {PyTwo, PyJunk, PyOne} ELSE {PyOne}

NoFile == [exists |-> FALSE, content |-> <<>>, mtime |-> 0]

\* What the last query returned: op is "search" or "context".
NoFound == [called |-> FALSE, op |-> "none", raised |-> FALSE, result |-> <<>>]

\* What the last operation was and did: op on project p; loaded, a cache load
\* succeeded; indexed, index_project ran; newer, a cache load was made while a
\* tracked file was newer than the persisted timestamp; made, a RAGSystem was
\* constructed; got, its cache load left something in the object; missing and
\* damaged, one of the four cache files was absent, or unreadable, when it
\* was constructed; stale, at a get_rag_system call a tracked file was newer
\* than the persisted timestamp.
Idle ==
    [op |-> "none", p |-> "", loaded |-> FALSE, indexed |-> FALSE, newer |-> FALSE,
     made |-> FALSE, got |-> FALSE, missing |-> FALSE, damaged |-> FALSE, stale |-> FALSE]

\* A metadata.json exists and some tracked file was modified after the time
\* it records.
Newer(c, files, root) ==
    /\ c.meta.present
    /\ \E path \in Tracked(files, root) : files[path].mtime > c.meta.project_mtime

CacheFiles == {"chunks", "index", "deps", "meta"}

\* What a construction reports of its cache load r, made on the cache c.
LoadReport(op, p, r, c, files, root) ==
    [op |-> op, p |-> p, loaded |-> r.ok, indexed |-> FALSE,
     newer |-> Newer(c, files, root),
     made |-> TRUE, got |-> r.self # NewInst,
     missing |-> \E f \in CacheFiles : ~c[f].present,
     damaged |-> \E f \in CacheFiles : c[f].present /\ c[f].corrupt,
     stale |-> op = "get" /\ Newer(c, files, root)]

HarnessIdle == cin = <<>> /\ cout = <<>>

Init ==
    /\ HarnessIdle
    /\ fs \in [Projects -> {f \in [ProjectPaths -> {NoFile} \cup
                                      {[exists |-> TRUE, content |-> c, mtime |-> 0] :
                                          c \in UNION {FileChoices(q) : q \in ProjectPaths}}] :
                               \A path \in ProjectPaths :
                                   f[path].exists => f[path].content \in FileChoices(path)}]
    /\ now = 0
    /\ cache = EmptyCache
    /\ inst = [p \in Projects |-> NoInst]
    /\ registered = [p \in Projects |-> FALSE]
    /\ last = Idle
    /\ found = NoFound

\* A file of the project is written (created, modified or only touched) by
\* an editor or another tool.
WriteFile(p, path, content) ==
    /\ now < MaxTime
    /\ now' = now + 1
    /\ fs' = [fs EXCEPT ![p][path] = [exists |-> TRUE, content |-> content, mtime |-> now + 1]]
    /\ last' = [Idle EXCEPT !.op = "write", !.p = p]
    /\ found' = NoFound
    /\ UNCHANGED <<cin, cout, cache, inst, registered>>

DeleteFile(p, path) ==
    /\ fs[p][path].exists
    /\ fs' = [fs EXCEPT ![p][path] = NoFile]
    /\ last' = [Idle EXCEPT !.op = "delete", !.p = p]
    /\ found' = NoFound
    /\ UNCHANGED <<cin, cout, now, cache, inst, registered>>

\* The process ends and a new one starts: _rag_systems is empty again and no
\* RAGSystem object survives; the files do.
Restart ==
    /\ \E p \in DOMAIN inst : inst[p].exists
    /\ inst' = [p \in DOMAIN inst |-> NoInst]
    /\ registered' = [p \in DOMAIN inst |-> FALSE]
    /\ last' = [Idle EXCEPT !.op = "restart"]
    /\ found' = NoFound
    /\ UNCHANGED <<cin, cout, fs, now, cache>>

\* RAGSystem(project_path): __init__ with its _load_cache.
Construct(p) ==
    /\ ~registered[p]
    /\ LET r == _load_cache(NewInst, cache, fs[p], Root(p)) IN
       /\ inst' = [inst EXCEPT ![p] = r.self]
       /\ last' = LoadReport("construct", p, r, cache, fs[p], Root(p))
    /\ found' = NoFound
    /\ UNCHANGED <<cin, cout, fs, now, cache, registered>>

\* The files of p that index_project chunks, in the order rglob yields them.
Listing(p) == RglobOrder(Indexable(fs[p], Root(p)))

\* index_project's last step, self._save_cache(), on its result r.
Indexed(p, r) ==
    /\ inst' = [inst EXCEPT ![p] = r.self]
    /\ cache' = _save_cache(r.self, cache, fs[p], Root(p))

\* The state after self.index_project() on the object self of project p.
IndexPass(p, self, order, failing, report) ==
    /\ Indexed(p, index_project(self, fs[p], Root(p), order, failing))
    /\ last' = [report EXCEPT !.indexed = TRUE]

\* get_rag_system(project_path) if it did not look p up in _rag_systems.
GetRagSystemAnew(p) ==
    /\ LET r == _load_cache(NewInst, cache, fs[p], Root(p)) IN
       IF r.self.chunks = <<>>
       THEN \E failing \in Failures :
               IndexPass(p, r.self, Listing(p), failing,
                         LoadReport("get", p, r, cache, fs[p], Root(p)))
       ELSE /\ inst' = [inst EXCEPT ![p] = r.self]
            /\ last' = LoadReport("get", p, r, cache, fs[p], Root(p))
            /\ UNCHANGED cache
    /\ registered' = [registered EXCEPT ![p] = TRUE]
    /\ found' = NoFound
    /\ UNCHANGED <<cin, cout, fs, now>>

\* get_rag_system(project_path)
GetRagSystem(p) ==
    /\ IF registered[p]
       THEN /\ last' = [Idle EXCEPT !.op = "get", !.p = p,
                                    !.stale = Newer(cache, fs[p], Root(p))]
            /\ UNCHANGED <<inst, cache>>
       ELSE LET r == _load_cache(NewInst, cache, fs[p], Root(p)) IN
            IF r.self.chunks = <<>>
            THEN \E failing \in Failures :
                    IndexPass(p, r.self, Listing(p), failing,
                              LoadReport("get", p, r, cache, fs[p], Root(p)))
            ELSE /\ inst' = [inst EXCEPT ![p] = r.self]
                 /\ last' = LoadReport("get", p, r, cache, fs[p], Root(p))
                 /\ UNCHANGED cache
    /\ registered' = [registered EXCEPT ![p] = TRUE]
    /\ found' = NoFound
    /\ UNCHANGED <<cin, cout, fs, now>>

\* index_project() called on the object that exists for p.
IndexProject(p) ==
    /\ inst[p].exists
    /\ \E failing \in Failures :
          IndexPass(p, inst[p], Listing(p), failing, [Idle EXCEPT !.op = "index", !.p = p])
    /\ found' = NoFound
    /\ UNCHANGED <<cin, cout, fs, now, registered>>

\* invalidate_rag_cache(project_path): the entry's invalidate_cache(), then
\* the entry is deleted.  Whoever held the object still holds it.
InvalidateRagCache(p) ==
    /\ registered[p]
    /\ inst' = [inst EXCEPT ![p] = invalidate_cache(inst[p])]
    /\ cache' = EmptyCache
    /\ registered' = [registered EXCEPT ![p] = FALSE]
    /\ last' = [Idle EXCEPT !.op = "invalidate", !.p = p]
    /\ found' = NoFound
    /\ UNCHANGED <<cin, cout, fs, now>>

\* search(query, k, current_file) on the object that exists for p.
Search(p, q, k, current_file) ==
    /\ inst[p].exists
    /\ LET r == search(inst[p], q, k, current_file) IN
       found' = [called |-> TRUE, op |-> "search", raised |-> r.raised, result |-> r.result]
    /\ last' = [Idle EXCEPT !.op = "search", !.p = p]
    /\ UNCHANGED <<cin, cout, fs, now, cache, inst, registered>>

Next ==
    \/ \E p \in Projects, path \in ProjectPaths :
           \E content \in FileChoices(path) : WriteFile(p, path, content)
    \/ \E p \in Projects, path \in ProjectPaths : DeleteFile(p, path)
    \/ Restart
    \/ \E p \in Projects : Construct(p)
    \/ \E p \in Projects : GetRagSystem(p)
    \/ \E p \in Projects : IndexProject(p)
    \/ \E p \in Projects : InvalidateRagCache(p)
    \/ \E p \in Projects, k \in 1..MaxK, current_file \in {NoPath, <<"a.py">>} :
           \E q \in PlainQueries(Len(inst[p].index.vecs)) : Search(p, q, k, current_file)

Spec == Init /\ [][Next]_vars

----------------------------------------------------------------------------
(* Two projects served by one process.  RAGSystem is constructed with the   *)
(* default cache_dir ".rag_cache", a path relative to the working directory *)
(* of the process, so every project's object reads and writes the same four *)
(* files.  Cache files may be removed or damaged from outside, and files    *)
(* are written through utils.write_file_content.                            *)

Roots == {"A", "B"}

\* The one source file of each project.
OwnPath(p) == IF p = "A" THEN <<"a.py">> ELSE <<"b.py">>

\* The contents write_file_content is asked to write to the file of p.
OwnChoices(p) == IF p = "A" THEN {PyTwo, PyOne} ELSE {PyOne}

\* The project roots that hold one of the markers write_file_content looks for
\* (.git, requirements.txt, package.json): A is a git checkout, B a plain folder.
Marked == {"A"}

\* The first of path.parents holding a marker, for a file directly in root p.
ProjectOf(p) == IF p \in Marked THEN {p} ELSE {}

CacheInit ==
    /\ HarnessIdle
    /\ fs = [p \in Roots |->
                [path \in ProjectPaths |->
                    IF path = OwnPath(p)
                    THEN [exists |-> TRUE, mtime |-> 0,
                          content |-> IF p = "A" THEN PyTwo ELSE PyOne]
                    ELSE NoFile]]
    /\ now = 0
    /\ cache = EmptyCache
    /\ inst = [p \in Roots |-> NoInst]
    /\ registered = [p \in Roots |-> FALSE]
    /\ last = Idle
    /\ found = NoFound

\* The cache directory holds its four files, all readable.
Intact(c) == \A f \in CacheFiles : c[f].present /\ ~c[f].corrupt

\* One file of a complete cache directory is deleted from outside.
RemoveCacheFile(f) ==
    /\ Intact(cache)
    /\ cache' = [cache EXCEPT ![f] = IF f = "meta" THEN NoMeta ELSE Absent]
    /\ last' = [Idle EXCEPT !.op = "remove"]
    /\ found' = NoFound
    /\ UNCHANGED <<cin, cout, fs, now, inst, registered>>

\* One file of a complete cache directory is truncated or overwritten from
\* outside.
CorruptCacheFile(f) ==
    /\ Intact(cache)
    /\ cache' = [cache EXCEPT ![f].corrupt = TRUE]
    /\ last' = [Idle EXCEPT !.op = "corrupt"]
    /\ found' = NoFound
    /\ UNCHANGED <<cin, cout, fs, now, inst, registered>>

\* invalidate_rag_cache(project_path) for any project_path: nothing happens
\* when it is no key of _rag_systems.
invalidate_rag_cache(p) ==
    IF registered[p]
    THEN /\ inst' = [inst EXCEPT ![p] = invalidate_cache(inst[p])]
         /\ cache' = EmptyCache
         /\ registered' = [registered EXCEPT ![p] = FALSE]
    ELSE UNCHANGED <<inst, cache, registered>>

\* utils.write_file_content(root(p)/path, content) returning True: the file is
\* written, then the cache of the project root found by the markers, if one
\* is found, is invalidated.
WriteFileContent(p, path, content) ==
    /\ now < MaxTime
    /\ now' = now + 1
    /\ fs' = [fs EXCEPT ![p][path] = [exists |-> TRUE, content |-> content, mtime |-> now + 1]]
    /\ IF ProjectOf(p) = {} THEN UNCHANGED <<inst, cache, registered>>
       ELSE invalidate_rag_cache(CHOOSE r \in ProjectOf(p) : TRUE)
    /\ last' = [Idle EXCEPT !.op = "write_file_content", !.p = p]
    /\ found' = NoFound
    /\ UNCHANGED <<cin, cout>>

CacheNext ==
    \/ \E p \in Roots : GetRagSystem(p)
    \/ \E p \in Roots : \E content \in OwnChoices(p) : WriteFileContent(p, OwnPath(p), content)
    \/ \E f \in CacheFiles : RemoveCacheFile(f)
    \/ \E f \in CacheFiles : CorruptCacheFile(f)
    \/ \E p \in Roots : InvalidateRagCache(p)
    \/ Restart

SpecCache == CacheInit /\ [][CacheNext]_vars

----------------------------------------------------------------------------
(* Queries alone: a project is indexed, then one query is made on the       *)
(* object (search and get_relevant_context_smart change nothing of it).     *)
(* cin holds the arguments of the query, found what it returned.            *)

NoArgs ==
    [ q |-> <<>>, k |-> 0, edit |-> FALSE, ui_files |-> {}, current_file |-> NoPath,
      max_tokens |-> 0, order |-> <<>> ]

\* The projects queried: a.py with four or two functions, b.py with a statement.
QueryFiles ==
    {[path \in ProjectPaths |->
         [exists |-> TRUE, content |-> IF path = <<"a.py">> THEN c ELSE PyOne, mtime |-> 0]] :
        c \in {PyFour, PyTwo}}

QueryInit ==
    /\ cin = NoArgs
    /\ cout = <<>>
    /\ fs \in [Projects -> QueryFiles]
    /\ now = 0
    /\ \E failing \in {"none", "first"} :
           inst = [p \in Projects |->
                      index_project(NewInst, fs[p], Root(p),
                                    RglobOrder(Indexable(fs[p], Root(p))), failing).self]
    /\ \E p \in Projects : cache = _save_cache(inst[p], EmptyCache, fs[p], Root(p))
    /\ registered = [p \in Projects |-> TRUE]
    /\ \E p \in Projects : last = [Idle EXCEPT !.op = "index", !.p = p, !.indexed = TRUE]
    /\ found = NoFound

\* What a query returned, as found records it.
Returned(op, r) == [called |-> TRUE, op |-> op, raised |-> r.raised, result |-> r.result]

\* search(query, k, current_file) on the object of p.
QuerySearch(p, q, k, current_file) ==
    /\ ~found.called
    /\ cin' = [NoArgs EXCEPT !.q = q, !.k = k, !.current_file = current_file]
    /\ found' = Returned("search", search(inst[p], q, k, current_file))
    /\ last' = [Idle EXCEPT !.op = "search", !.p = p]
    /\ UNCHANGED <<cout, fs, now, cache, inst, registered>>

\* get_relevant_context_smart(user_query, current_file, max_tokens) on the
\* object of p.
QueryContext(p, q, edit, ui_files, current_file, max_tokens, order) ==
    /\ ~found.called
    /\ cin' = [ q |-> q, k |-> SearchK, edit |-> edit, ui_files |-> ui_files,
                current_file |-> current_file, max_tokens |-> max_tokens, order |-> order ]
    /\ found' = Returned("context",
                         get_relevant_context_smart(inst[p], fs[p], q, edit, ui_files,
                                                    current_file, max_tokens, order))
    /\ last' = [Idle EXCEPT !.op = "context", !.p = p]
    /\ UNCHANGED <<cout, fs, now, cache, inst, registered>>

\* The values current_file takes: None and the files of the project.
CurrentFiles == {NoPath} \cup ProjectPaths

\* The queries that every fragment matches equally well: every ranking.
FlatQueries(n) == {[rank |-> r, score |-> [i \in 1..n |-> 2]] : r \in Orders(1..n)}

\* search reads no file of the project: it is called with every file on
\* disk.  get_relevant_context_smart reads files: it is called also after one
\* of the indexed files was deleted.
QueryNext ==
    \/ /\ ~found.called
       /\ \E p \in Projects, k \in 1..MaxQueryK, current_file \in CurrentFiles :
              /\ \A path \in ProjectPaths : fs[p][path].exists
              /\ \E q \in Queries(Len(inst[p].index.vecs)) :
                     QuerySearch(p, q, k, current_file)
    \/ /\ ~found.called
       /\ \E p \in Projects, edit \in BOOLEAN, current_file \in CurrentFiles,
             max_tokens \in 0..MaxTokens :
              \E q \in FlatQueries(Len(inst[p].index.vecs)) :
                  \E order \in Orders(FilesForFullContent(
                                          search(inst[p], q, SearchK, current_file).result,
                                          edit)) :
                      QueryContext(p, q, edit, {}, current_file, max_tokens, order)
    \/ /\ ~found.called
       /\ \E p \in Projects :
              /\ \A path \in ProjectPaths : fs[p][path].exists
              /\ \E path \in ProjectPaths : DeleteFile(p, path)

SpecQuery == QueryInit /\ [][QueryNext]_vars

----------------------------------------------------------------------------
(* Queries about the user interface: a project of a component file and a   *)
(* style sheet is indexed, then get_relevant_context_smart is called with  *)
(* a query that holds one of the interface words ("button", "component").  *)

UiPaths == {<<"Button.tsx">>, <<"Button.css">>}

\* Button.tsx: an import line and a component, or two components.
TsxChoices == {<<"x", "\n", "def", "{", "}">>, <<"def", "{", "}", "\n", "def", "{", "}">>}

\* Button.css: one rule or two.
CssChoices == {<<"def", "{", "}">>, <<"def", "{", "}", "\n", "def", "{", "}">>}

UiFiles ==
    {[path \in UiPaths |->
         [exists |-> TRUE, mtime |-> 0,
          content |-> IF path = <<"Button.tsx">> THEN tsx ELSE css]] :
        tsx \in TsxChoices, css \in CssChoices}

UiInit ==
    /\ cin = NoArgs
    /\ cout = <<>>
    /\ fs \in [Projects -> UiFiles]
    /\ now = 0
    /\ inst = [p \in Projects |->
                  index_project(NewInst, fs[p], Root(p),
                                RglobOrder(Indexable(fs[p], Root(p))), "none").self]
    /\ \E p \in Projects : cache = _save_cache(inst[p], EmptyCache, fs[p], Root(p))
    /\ registered = [p \in Projects |-> TRUE]
    /\ \E p \in Projects : last = [Idle EXCEPT !.op = "index", !.p = p, !.indexed = TRUE]
    /\ found = NoFound

\* The files get_ui_related_files may find for a query that names the
\* component: the component file, when a component was recognised in it.
UiRelated == SUBSET {<<"Button.tsx">>}

UiNext ==
    /\ ~found.called
    /\ \E p \in Projects, edit \in BOOLEAN, ui_files \in UiRelated, max_tokens \in 0..MaxTokens :
           \E q \in PlainQueries(Len(inst[p].index.vecs)) :
               \E order \in Orders(FullContentSet(search(inst[p], q, SearchK, NoPath).result,
                                                   edit, ui_files)) :
                   QueryContext(p, q, edit, ui_files, NoPath, max_tokens, order)

SpecUi == UiInit /\ [][UiNext]_vars

----------------------------------------------------------------------------
(* Claims about queries. *)

\* C5: for every query, k >= 1 and current_file, search returns at most k
\* fragments and no file_path occurs more than 3 times among them.
C5_AtMostKAndThreePerFile ==
    (found.called /\ found.op = "search" /\ ~found.raised) =>
        /\ Len(found.result) <= cin.k
        /\ \A i \in 1..Len(found.result) :
              Cardinality({j \in 1..Len(found.result) :
                              found.result[j].file_path = found.result[i].file_path}) <= 3

\* search returned k fragments, three of them of a file of which the index
\* holds more than three.
C5_Witness ==
    /\ found.called /\ found.op = "search" /\ ~found.raised
    /\ Len(found.result) = cin.k
    /\ \E p \in Projects, path \in ProjectPaths :
          /\ last.p = p
          /\ Cardinality({j \in 1..Len(found.result) : found.result[j].file_path = path}) = 3
          /\ Cardinality({id \in DOMAIN inst[p].chunks : inst[p].chunks[id].file_path = path}) > 3

\* The similarity faiss reported for a fragment of the result.
BaseScore(p, chunk) ==
    cin.q.score[CHOOSE i \in 1..Len(cin.q.rank) :
                    inst[p].chunk_ids[cin.q.rank[i]] = chunk.chunk_id]

\* C6: of two fragments of a search result with the same base similarity
\* (positive, zero or negative), the one of current_file is ranked before
\* the one of another file.
C6_CurrentFileRanksFirst ==
    \A p \in Projects :
        (found.called /\ found.op = "search" /\ ~found.raised /\ last.p = p) =>
            \A i, j \in 1..Len(found.result) :
                ( /\ found.result[i].file_path = cin.current_file
                  /\ found.result[j].file_path # cin.current_file
                  /\ BaseScore(p, found.result[i]) = BaseScore(p, found.result[j]) )
                    => i < j

\* The adjusted score (in halves) of a fragment of the result.
AdjustedScore(p, chunk) ==
    IF cin.current_file # NoPath /\ chunk.file_path = cin.current_file
    THEN BoostTimesTwo * BaseScore(p, chunk)
    ELSE 2 * BaseScore(p, chunk)

\* The candidate pool of the claim: the 3-per-file cap applied to all of the
\* min(3k, n) fragments retrieved, in the order retrieved.
CandidatePool(self) ==
    SearchLoop(self,
               FaissSearch(cin.q, Len(self.index.vecs), Min(cin.k * 3, Len(self.chunk_ids))),
               1, cin.k * 3 + 1, cin.current_file, <<>>).results

\* The adjusted scores of the k best of a pool, in non-increasing order.
BestScores(pool, k) == [i \in 1..Min(k, Len(pool)) |-> SortDesc(pool)[i].adjusted]

\* C20: the adjusted scores of the fragments search returns are those of the
\* k best of the candidate pool (the cap applied to all min(3k, n) fragments
\* retrieved), in non-increasing order.
C20_TopKOfCappedPool ==
    \A p \in Projects :
        (found.called /\ found.op = "search" /\ ~found.raised /\ last.p = p) =>
            [i \in 1..Len(found.result) |-> AdjustedScore(p, found.result[i])]
                = BestScores(CandidatePool(inst[p]), cin.k)

RECURSIVE SumOver(_, _)
\* The sum of f over the set S of its arguments.
SumOver(f, S) ==
    IF S = {} THEN 0
    ELSE f[CHOOSE x \in S : TRUE] + SumOver(f, S \ {CHOOSE x \in S : TRUE})

\* The largest of the numbers of S, 0 when there is none.
Largest(S) == IF S = {} THEN 0 ELSE CHOOSE x \in S : \A y \in S : y <= x

\* C8: the characters of the values of all_file_contents, as returned (tags
\* and headers included), total at most max_tokens * 4 plus the size of one
\* full file that was tested for fit.
C8_ContextWithinBudget ==
    (found.called /\ found.op = "context" /\ ~found.raised) =>
        SumOver(found.result.all_file_contents, DOMAIN found.result.all_file_contents)
            <= cin.max_tokens * TokenChars + Largest(found.result.tested)


----------------------------------------------------------------------------
(* The chunker alone: one chunking pass, as index_project makes it, over    *)
(* any bounded project snapshot.                                            *)

LineSet ==
    { <<>>,                     \* an empty line
      <<"def", "{">>,           \* a definition opening a block
      <<"    ", "def">>,        \* a nested definition
      <<"    ", "x">>,          \* an indented statement
      <<"x">>,                  \* a top-level statement
      <<"}">>,                  \* a closing brace
      <<"def", "{", "}">> }     \* a one-line definition

RECURSIVE LinesOfLen(_)
LinesOfLen(n) ==
    IF n = 0 THEN {<<>>}
    ELSE {Append(ls, l) : ls \in LinesOfLen(n - 1), l \in LineSet}

ShortFiles == UNION {LinesOfLen(n) : n \in 1..MaxLines}

\* Uniform files: n statements, one of them possibly replaced by an empty line.
LongFiles ==
    {[i \in 1..n |-> IF i = b THEN <<>> ELSE <<"x">>] : n \in 5..MaxLongLines, b \in {0, 3}}

ChunkPaths == {<<"a.py">>, <<"a.js">>, <<"a.go">>, <<"a.css">>, <<"a.md">>}

\* Projects of one file: every path with every bounded content.
OneFileProjects ==
    {[path \in {p} |-> JoinLines(ls)] : p \in ChunkPaths, ls \in ShortFiles \cup LongFiles}

\* A file name that holds colons and digits (legal on POSIX file systems).
ColonPath == <<"a.js", ":", "0", ":", "0", ":", "b.js">>

PairPaths == {<<"a.js">>, <<"b.js">>, ColonPath}

PairContents == {<<"Z">>, <<"b.js", ":", "0", ":", "0", ":", "Z">>, <<"def", "{", "}">>}

\* Projects of two files.
TwoFileProjects ==
    {[path \in {p1, p2} |-> IF path = p1 THEN c1 ELSE c2] :
        p1 \in PairPaths, p2 \in PairPaths, c1 \in PairContents, c2 \in PairContents}
    \ OneFileProjects

\* cout: the results of the pass made last, and all_chunks of the pass before it.
NoOut ==
    [ called |-> FALSE, passes |-> 0, results |-> <<>>, all_chunks |-> <<>>,
      files_before |-> <<>>, before |-> <<>> ]

SystemIdle ==
    /\ fs = <<>> /\ now = 0 /\ cache = EmptyCache /\ inst = <<>> /\ registered = <<>>
    /\ last = Idle /\ found = NoFound

ChunkInit ==
    /\ cin \in OneFileProjects \cup TwoFileProjects
    /\ cout = NoOut
    /\ SystemIdle

\* One pass: chunk_by_functions on every file, and all_chunks as index_project
\* collects it.
ChunkFiles ==
    /\ ~cout.called
    /\ cout' = [ called |-> TRUE,
                 passes |-> cout.passes + 1,
                 results |-> [path \in DOMAIN cin |-> chunk_by_functions(cin[path], path)],
                 all_chunks |-> Collect([path \in DOMAIN cin |->
                                            [exists |-> TRUE, content |-> cin[path], mtime |-> 0]],
                                        RglobOrder(DOMAIN cin)),
                 files_before |-> cout.files_before,
                 before |-> cout.before ]
    /\ UNCHANGED <<cin, sysVars>>

\* The text with its last line emptied.
LastLineEmptied(content) ==
    JoinLines([SplitLines(content) EXCEPT ![Len(SplitLines(content))] = <<>>])

\* Between two passes a file is left as it is or its last line is emptied.
Rewrite(path, edit) ==
    /\ cout.called /\ cout.passes = 1
    /\ cin' = [cin EXCEPT ![path] = IF edit THEN LastLineEmptied(cin[path]) ELSE cin[path]]
    /\ cout' = [NoOut EXCEPT !.passes = 1, !.files_before = cin, !.before = cout.all_chunks]
    /\ UNCHANGED sysVars

ChunkNext ==
    \/ ChunkFiles
    \/ \E path \in DOMAIN cin, edit \in BOOLEAN : Rewrite(path, edit)

SpecChunk == ChunkInit /\ [][ChunkNext]_vars

----------------------------------------------------------------------------
(* Claims about the chunker. *)

\* The number of fragments chunk_by_functions returned for path whose span
\* holds line i.
Covering(path, i) ==
    LET chunks == cout.results[path].chunks IN
    Cardinality({k \in 1..Len(chunks) : chunks[k].start_line <= i /\ i <= chunks[k].end_line})

\* C1: the fragments chunk_by_functions returns partition the file's lines
\* 0..len(lines)-1: every line lies in exactly one fragment, no gap and no
\* overlap, for every content (with some text) and every language strategy.
C1_FragmentsPartitionFile ==
    cout.called =>
        \A path \in DOMAIN cin :
            (~cout.results[path].raised /\ HasText(cin[path])) =>
                \A i \in 0..(Len(SplitLines(cin[path])) - 1) : Covering(path, i) = 1

\* Whether two fragments agree on what the id is made of.
SameKey(c1, c2) ==
    /\ c1.file_path = c2.file_path
    /\ c1.start_line = c2.start_line
    /\ c1.end_line = c2.end_line
    /\ TakeChars(c1.content, IdChars) = TakeChars(c2.content, IdChars)

\* C2: chunk_id is deterministic and a function only of (file_path,
\* start_line, end_line, first 100 characters of content): a second pass over
\* unchanged files yields the same fragments with the same ids, and any two
\* fragments of the two passes that agree on that tuple have the same id.
C2_IdDeterminedByKey ==
    (cout.called /\ cout.passes = 2) =>
        /\ (cout.files_before = cin => cout.all_chunks = cout.before)
        /\ \A i \in 1..Len(cout.before), j \in 1..Len(cout.all_chunks) :
                SameKey(cout.before[i], cout.all_chunks[j]) =>
                    cout.before[i].chunk_id = cout.all_chunks[j].chunk_id

\* Two passes were made, and a fragment of the first and one of the second
\* agree on the tuple although their contents differ (past character 100).
C2_Witness ==
    /\ cout.called /\ cout.passes = 2
    /\ \E i \in 1..Len(cout.before), j \in 1..Len(cout.all_chunks) :
           /\ SameKey(cout.before[i], cout.all_chunks[j])
           /\ cout.before[i].content # cout.all_chunks[j].content

\* C3: within the fragment set of one index_project pass no two distinct
\* fragments (differing in file, line span or content) share a chunk_id.
C3_DistinctFragmentsDistinctIds ==
    cout.called =>
        \A i, j \in 1..Len(cout.all_chunks) :
            cout.all_chunks[i] # cout.all_chunks[j] =>
                cout.all_chunks[i].chunk_id # cout.all_chunks[j].chunk_id

----------------------------------------------------------------------------
(* Claims about the index store and its life. *)

\* The number of vectors, of ids and of fragments of an object agree, and the
\* vector at ordinal i is that of the fragment chunk_ids[i] names.
Aligned(self) ==
    /\ Len(self.index.vecs) = Len(self.chunk_ids)
    /\ Len(self.chunk_ids) = Cardinality(DOMAIN self.chunks)
    /\ \A i \in 1..Len(self.chunk_ids) :
          /\ self.chunk_ids[i] \in DOMAIN self.chunks
          /\ i <= Len(self.index.vecs) =>
                 self.index.vecs[i] = Embed(self.chunks[self.chunk_ids[i]])

\* C4: after index_project returns on any object (fresh, cache-loaded or
\* indexed before; also when the pass produced no fragment or embeddings
\* failed), the number of vectors equals len(chunk_ids) equals the number of
\* fragment-map entries (an absent index counting as 0), and chunk_ids[i] is
\* the key of the fragment whose vector is at ordinal i.
C4_IndexIdsFragmentsAgree ==
    \A p \in Projects : (last.indexed /\ last.p = p) => Aligned(inst[p])

\* C7: search on an object with no built index returns an empty list and
\* does not raise, whatever the query, k and current_file.
C7_NoIndexNoResultNoError ==
    \A p \in Projects :
        (found.called /\ found.op = "search" /\ last.p = p /\ ~inst[p].index.built) =>
            (found.result = <<>> /\ ~found.raised)

\* search was called on an object that exists and has no index.
C7_Witness ==
    \E p \in Projects :
        /\ found.called /\ found.op = "search" /\ last.op = "search" /\ last.p = p
        /\ inst[p].exists /\ ~inst[p].index.built

\* What a new RAGSystem of project p would load from the cache as it is.
Reloaded(p) == _load_cache(NewInst, cache, fs[p], Root(p))

\* C9: after index_project has saved the cache, a new RAGSystem of the same
\* project, no file having changed, loads a fragment map, an id list and a
\* vector index equal to those of the object that saved them.
C9_LoadedEqualsSaved ==
    \A p \in Projects :
        (last.indexed /\ last.p = p /\ Reloaded(p).ok) =>
            /\ Reloaded(p).self.chunks = inst[p].chunks
            /\ Reloaded(p).self.chunk_ids = inst[p].chunk_ids
            /\ Reloaded(p).self.index = inst[p].index

\* C10: when a tracked file is newer than the persisted timestamp, a cache
\* load reuses nothing of the cache, and get_rag_system runs index_project
\* before it returns the object.
C10_NewerFileNoReuse ==
    (last.op \in {"get", "construct"} /\ last.newer) =>
        /\ ~last.loaded
        /\ last.op = "get" => last.indexed

\* get_rag_system found chunks, index and metadata files in the cache and a
\* tracked file newer than the metadata's timestamp.
C10_Witness ==
    /\ last.op = "get" /\ last.newer /\ last.indexed
    /\ cache.chunks.present /\ cache.index.present

----------------------------------------------------------------------------
(* Single calls of utils.write_file_content, utils.read_file_content and    *)
(* backend_api.run_git_command.  A text is a sequence of characters, "x"    *)
(* standing for any character that is no line ending.  No project is        *)
(* registered, so the invalidate_rag_cache that write_file_content may call *)
(* finds nothing to do.                                                     *)

FileChars == {"x", "\r", "\n"}

Texts == UNION {[1..n -> FileChars] : n \in 0..MaxChars}

\* os.linesep: POSIX, Windows.
Lineseps == {<<"\n">>, <<"\r", "\n">>}

\* What the path names before the write: nothing, in an existing directory
\* ("new") or under directories that do not exist ("deep"); a file; a directory.
Targets == {"new", "deep", "file", "dir"}

RECURSIVE TextEncode(_, _)
\* The characters a file opened for writing in text mode (newline=None) gets
\* for the text s: every "\n" becomes os.linesep.
TextEncode(s, linesep) ==
    IF s = <<>> THEN <<>>
    ELSE (IF Head(s) = "\n" THEN linesep ELSE <<Head(s)>>) \o TextEncode(Tail(s), linesep)

RECURSIVE TextDecode(_)
\* The text a file opened for reading in text mode (newline=None) gives:
\* "\r\n" and "\r" both become "\n".
TextDecode(chars) ==
    IF chars = <<>> THEN <<>>
    ELSE IF Head(chars) # "\r" THEN <<Head(chars)>> \o TextDecode(Tail(chars))
    ELSE IF Len(chars) > 1 /\ chars[2] = "\n"
         THEN <<"\n">> \o TextDecode(SubSeq(chars, 3, Len(chars)))
    ELSE <<"\n">> \o TextDecode(Tail(chars))

\* write_file_content(file_path_str, content): its return value and what is
\* at the path afterwards.  mkdir(parents=True, exist_ok=True) creates the
\* missing directories; write_text on a directory raises, and the handler
\* returns False.
write_file_content(target, content, linesep) ==
    IF target = "dir" THEN [ok |-> FALSE, disk |-> [kind |-> "dir", chars |-> <<>>]]
    ELSE [ok |-> TRUE, disk |-> [kind |-> "file", chars |-> TextEncode(content, linesep)]]

\* read_file_content(file_path_str): the text, or None when reading raises.
read_file_content(disk) ==
    IF disk.kind = "file" THEN [none |-> FALSE, text |-> TextDecode(disk.chars)]
    ELSE [none |-> TRUE, text |-> <<>>]

GitWords == {"git", "status", "push"}

CommandParts == UNION {[1..n -> GitWords] : n \in 1..MaxArgs}

\* project_path: Optional[str], as the set of its values: {} is None.
ProjectPathArgs == {{}, {""}, {"/home/A"}}

\* What subprocess.run does when it is called: the process exits with 0 or
\* 1, the executable is not found, or another error is raised.
RunOutcomes == {"exit0", "exit1", "FileNotFoundError", "OSError"}

\* What subprocess.run and the handlers around it make of an outcome.
RunSubprocess(outcome) ==
    CASE outcome = "exit0" -> [raised |-> FALSE, status_code |-> 0, runs |-> 1, returncode |-> 0]
      [] outcome = "exit1" -> [raised |-> FALSE, status_code |-> 0, runs |-> 1, returncode |-> 1]
      [] outcome = "FileNotFoundError" ->
             [raised |-> FALSE, status_code |-> 0, runs |-> 1, returncode |-> -1]
      [] OTHER -> [raised |-> TRUE, status_code |-> 500, runs |-> 1, returncode |-> 0]

\* run_git_command without the test of project_path.
RunGitCommandUnguarded(command_parts, project_path, outcome) == RunSubprocess(outcome)

\* run_git_command(command_parts, project_path): raised, an HTTPException
\* with status_code; runs, the number of subprocess.run calls made;
\* returncode, that of the CommandOutput returned.
run_git_command(command_parts, project_path, outcome) ==
    IF project_path = {} \/ project_path = {""}
    THEN [raised |-> TRUE, status_code |-> 400, runs |-> 0, returncode |-> 0]
    ELSE RunSubprocess(outcome)

WriteArgs ==
    {[op |-> "write", target |-> t, content |-> s, linesep |-> l] :
        t \in Targets, s \in Texts, l \in Lineseps}

GitArgs ==
    {[op |-> "git", command_parts |-> c, project_path |-> p, outcome |-> o] :
        c \in CommandParts, p \in ProjectPathArgs, o \in RunOutcomes}

NoCall == [op |-> "none"]

CallInit ==
    /\ cin \in WriteArgs \cup GitArgs
    /\ cout = NoCall
    /\ SystemIdle

WriteFileContentCall ==
    /\ cin.op = "write" /\ cout.op = "none"
    /\ cout' = [op |-> "write",
                wrote |-> write_file_content(cin.target, cin.content, cin.linesep)]
    /\ UNCHANGED <<cin, fs, now, cache, inst, registered, last, found>>

ReadFileContentCall ==
    /\ cout.op = "write"
    /\ cout' = [op |-> "read", wrote |-> cout.wrote, got |-> read_file_content(cout.wrote.disk)]
    /\ UNCHANGED <<cin, fs, now, cache, inst, registered, last, found>>

RunGitCommandCall ==
    /\ cin.op = "git" /\ cout.op = "none"
    /\ cout' = [op |-> "git",
                result |-> run_git_command(cin.command_parts, cin.project_path, cin.outcome)]
    /\ UNCHANGED <<cin, fs, now, cache, inst, registered, last, found>>

CallNext == WriteFileContentCall \/ ReadFileContentCall \/ RunGitCommandCall

SpecCalls == CallInit /\ [][CallNext]_vars

----------------------------------------------------------------------------
(* Claims about single calls. *)

\* C18: write_file_content(path, s) followed by read_file_content(path), for
\* a path that names no directory: the write returns True, the file exists
\* afterwards (missing parent directories were created), and the read
\* returns exactly s.
C18_WriteReadRoundTrip ==
    (cout.op = "read" /\ cin.target # "dir") =>
        /\ cout.wrote.ok /\ cout.wrote.disk.kind = "file"
        /\ ~cout.got.none /\ cout.got.text = cin.content

\* C19: run_git_command with project_path None or "" raises HTTPException,
\* whatever the command, and makes no subprocess.run call.
C19_NoProjectNoSubprocess ==
    (cout.op = "git" /\ cin.project_path \in {{}, {""}}) =>
        (cout.result.raised /\ cout.result.runs = 0)

\* C19 witness: run_git_command was called with None and raised.
C19_Witness ==
    cout.op = "git" /\ cin.project_path = {} /\ cout.result.raised

----------------------------------------------------------------------------
(* Claims about the cache directory and the registry. *)

\* C11: when one of the four cache files (chunks.pkl, index.faiss,
\* dependencies.pkl, metadata.json) is missing at the construction made by
\* get_rag_system, nothing is loaded from the cache and index_project runs.
C11_MissingFileForcesRebuild ==
    (last.op = "get" /\ last.made /\ last.missing) => (~last.got /\ last.indexed)

\* C12: when one of the cache files is unreadable at the construction made by
\* get_rag_system, the load leaves the fragment map, the id list and the index
\* empty, and index_project runs before the instance is returned.
C12_DamagedFileForcesRebuild ==
    (last.op = "get" /\ last.made /\ last.damaged) => (~last.got /\ last.indexed)

\* C13: after a write_file_content that returned True for a file under project
\* root p, p has no entry in the registry (an entry it had was invalidated),
\* so that the next get_rag_system(p) constructs and rebuilds.
C13_WriteInvalidatesEntry ==
    last.op = "write_file_content" => ~registered[last.p]

\* C15: the object of a project root holds no fragment of another project's
\* file, whatever cache it was constructed from and in whatever order the
\* projects were indexed.
C15_NoForeignFragments ==
    \A p \in Roots \cap DOMAIN inst :
        \A id \in DOMAIN inst[p].chunks : inst[p].chunks[id].file_path = OwnPath(p)

\* C16: a get_rag_system(p) call that finds p in the registry returns the
\* object that is there, constructing nothing and running no index_project;
\* the call that does not find it constructs the object, and runs
\* index_project only if the cache load left the fragment map empty.
C16_OneInstancePerRoot ==
    [][\A p \in DOMAIN inst :
          (last'.op = "get" /\ last'.p = p) =>
              IF registered[p]
              THEN inst'[p] = inst[p] /\ registered'[p] /\ ~last'.made /\ ~last'.indexed
              ELSE /\ last'.made /\ registered'[p]
                   /\ last'.indexed =>
                          _load_cache(NewInst, cache, fs[p], Root(p)).self.chunks = <<>>]_vars

\* C16 witness: get_rag_system was called again for a root whose object, with
\* fragments, was in the registry.
C16_Witness ==
    /\ last.op = "get" /\ ~last.made
    /\ \E p \in DOMAIN inst : last.p = p /\ registered[p] /\ inst[p].chunks # <<>>

\* C17: at every get_rag_system(p) call, the first or a later one, made while
\* a tracked file is newer than the persisted timestamp, the index is rebuilt.
C17_StaleIndexRebuilt ==
    (last.op = "get" /\ last.stale) => last.indexed

----------------------------------------------------------------------------
(* Claims about queries on the user interface. *)

\* The files of a sequence of paths.
PathsOf(paths) == {paths[i] : i \in 1..Len(paths)}

\* An editing query about the user interface was answered for a project
\* whose component file and style sheet both have fragments in the index.
EditUiQueryAnswered ==
    /\ found.called /\ found.op = "context" /\ ~found.raised /\ cin.edit
    /\ \A path \in UiPaths : \E p \in Projects :
           \E id \in DOMAIN inst[p].chunks : inst[p].chunks[id].file_path = path

\* The characters of the two files together.
UiChars(files) == StrLen(files[<<"Button.tsx">>].content) + StrLen(files[<<"Button.css">>].content)

\* C14 as stated: for an edit-intent UI query over Button.tsx and Button.css,
\* both files are returned, the component as a full file and the style sheet
\* as a partial one (the budget being large enough for both files).
C14_ComponentFullStyleSheetPartial ==
    (EditUiQueryAnswered /\ \A p \in Projects : UiChars(fs[p]) <= cin.max_tokens * TokenChars) =>
        /\ UiPaths \subseteq PathsOf(found.result.file_paths)
        /\ <<"Button.tsx">> \in PathsOf(found.result.full_files)
        /\ <<"Button.css">> \in PathsOf(found.result.partial_files)

\* C14, amended: for an edit-intent UI query over Button.tsx and Button.css,
\* no file is returned as a partial one, every file returned is one of the
\* two and full, and both are returned in full when together they fit in
\* max_tokens * 4 characters.
C14_EditQueryGivesFullFilesOnly ==
    EditUiQueryAnswered =>
        /\ found.result.partial_files = <<>>
        /\ PathsOf(found.result.file_paths) = PathsOf(found.result.full_files)
        /\ PathsOf(found.result.full_files) \subseteq UiPaths
        /\ \A p \in Projects :
               UiChars(fs[p]) <= cin.max_tokens * TokenChars =>
                   PathsOf(found.result.full_files) = UiPaths

\* C14 witness: an edit-intent UI query returned both files, both in full.
C14_Witness ==
    /\ EditUiQueryAnswered
    /\ PathsOf(found.result.full_files) = UiPaths
    /\ found.result.partial_files = <<>>

----------------------------------------------------------------------------
(* Claims about the packing of the context.                                 *)

\* The fragments search returned that are of no file of full_set, in the
\* order of the search.
Candidates(relevant_chunks, full_set) ==
    SelectSeq(relevant_chunks, LAMBDA chunk : chunk.file_path \notin full_set)

RECURSIVE CharsOf(_)
\* The characters the fragments parts count for: content and description.
CharsOf(parts) ==
    IF parts = <<>> THEN 0 ELSE ChunkChars(Head(parts)) + CharsOf(Tail(parts))

RECURSIVE FullChars(_, _, _, _)
\* The characters of the files among order[1..n] that are in the set full.
FullChars(files, order, n, full) ==
    IF n = 0 THEN 0
    ELSE FullChars(files, order, n - 1, full)
             + IF order[n] \in full THEN StrLen(files[order[n]].content) ELSE 0

\* The files the result r gives in full.
FullOf(r) == {r.full_files[i] : i \in 1..Len(r.full_files)}

\* The place of file_path in order.
PlaceIn(order, file_path) == CHOOSE i \in 1..Len(order) : order[i] = file_path

\* Of the files of order, taken in that order, r gives in full exactly those
\* on disk whose length, added to the lengths of the files given before
\* them, is within the budget; each is given whole, and before any fragment.
FullFilesPacked(files, order, budget, r) ==
    /\ FullOf(r) \subseteq {order[i] : i \in 1..Len(order)}
    /\ \A i, j \in 1..Len(r.full_files) :
           i < j => PlaceIn(order, r.full_files[i]) < PlaceIn(order, r.full_files[j])
    /\ \A i \in 1..Len(order) :
           order[i] \in FullOf(r) <=>
               /\ files[order[i]].exists
               /\ FullChars(files, order, i - 1, FullOf(r)) + StrLen(files[order[i]].content)
                      <= budget
    /\ \A file_path \in FullOf(r) : r.all_file_contents[file_path] = FullLen(files, file_path)
    /\ r.file_paths = r.full_files \o r.partial_files

\* The fragments r gives are the first n of cands, for the n at which the
\* budget, of which start characters are used by the full files, would be
\* exceeded by the next fragment, or for all of them.
FragmentsPacked(cands, budget, start, r) ==
    \E n \in 0..Len(cands) :
        /\ r.partial_files = KeysOf(SubSeq(cands, 1, n), {})
        /\ \A i \in 1..Len(r.partial_files) :
               r.all_file_contents[r.partial_files[i]]
                   = PartialLen(SubSeq(cands, 1, n), r.partial_files[i])
        /\ start + CharsOf(SubSeq(cands, 1, n)) <= budget
        /\ n < Len(cands) => start + CharsOf(SubSeq(cands, 1, n + 1)) > budget
        /\ r.estimated_tokens = (start + CharsOf(SubSeq(cands, 1, n))) \div TokenChars

\* The result r packs the fragments relevant_chunks as the two loops should.
PackedInTurn(files, relevant_chunks, r) ==
    /\ FullFilesPacked(files, cin.order, cin.max_tokens * TokenChars, r)
    /\ FragmentsPacked(Candidates(relevant_chunks,
                                   FullContentSet(relevant_chunks, cin.edit, cin.ui_files)),
                        cin.max_tokens * TokenChars,
                        FullChars(files, cin.order, Len(cin.order), FullOf(r)), r)

\* C21: get_relevant_context_smart considers the full-content files before
\* any fragment; a file on disk is given whole exactly when the running total
\* plus its length is at most max_tokens * 4 at its turn, and a file that
\* does not fit is skipped without stopping the files after it; the
\* fragments of the other files are then added in search order up to the
\* first that would exceed the budget, and none after it.
C21_PackedInTurn ==
    (found.called /\ found.op = "context" /\ ~found.raised) =>
        PackedInTurn(fs[last.p],
                     search(inst[last.p], cin.q, SearchK, cin.current_file).result,
                     found.result)

\* The packing stopped at a fragment that did not fit, and the last fragment
\* found would have fitted in its place.
StoppedBeforeShorter(cands, r) ==
    \E n \in 0..(Len(cands) - 1) :
        /\ r.partial_files = KeysOf(SubSeq(cands, 1, n), {})
        /\ CharsOf(SubSeq(cands, 1, n + 1)) > cin.max_tokens * TokenChars
        /\ CharsOf(SubSeq(cands, 1, n)) + ChunkChars(cands[Len(cands)])
               <= cin.max_tokens * TokenChars

C21_Witness ==
    /\ found.called /\ found.op = "context" /\ ~found.raised /\ ~cin.edit
    /\ StoppedBeforeShorter(search(inst[last.p], cin.q, SearchK, cin.current_file).result,
                            found.result)

\* An editing query skipped a file that did not fit and gave a later one.
C21_SkippedFileThenFull ==
    /\ found.called /\ found.op = "context" /\ ~found.raised /\ cin.edit
    /\ \E i, j \in 1..Len(cin.order) :
           /\ i < j
           /\ fs[last.p][cin.order[i]].exists
           /\ cin.order[i] \notin FullOf(found.result)
           /\ cin.order[j] \in FullOf(found.result)

----------------------------------------------------------------------------
(* FileDependencyAnalyzer.  The analyzer of an object is its field          *)
(* dependency_analyzer: the nodes and edges of dependency_graph, and the    *)
(* tables file_to_symbols, symbol_to_file and ui_dependencies.  Every       *)
(* definition of the model's texts defines the name f, and the token        *)
(* "import f" is the statement that imports that name.  The texts hold no   *)
(* export statement, no `import ... from` and no component, so that only    *)
(* Python fragments add symbols and edges, and ui_dependencies stays empty. *)

\* analysis["imports"] of a Python text: the name of every import statement.
Imports(content) ==
    [i \in 1..Len(SelectSeq(content, LAMBDA tok : tok = "import f")) |-> "f"]

\* analysis["functions"] by name.
FunctionNames(content) == [i \in 1..Len(Functions(content)) |-> "f"]

\* FileDependencyAnalyzer(): an empty graph and empty tables.
NewAnalyzer ==
    [ nodes |-> {}, edges |-> {}, file_to_symbols |-> <<>>, symbol_to_file |-> <<>>,
      ui_dependencies |-> <<>> ]

\* The RAGSystem object self with the analyzer d as its dependency_analyzer.
WithAnalyzer(self, d) ==
    [ exists |-> self.exists, chunks |-> self.chunks, index |-> self.index,
      chunk_ids |-> self.chunk_ids, dependency_analyzer |-> d ]

\* _extract_python_exports(chunk, file_path): every public function of the
\* fragment becomes a symbol of the file, and the file the symbol's file.
_extract_python_exports(d, chunk) ==
    IF FunctionNames(chunk.content) = <<>> THEN d
    ELSE [d EXCEPT
            !.file_to_symbols =
                (chunk.file_path :> {FunctionNames(chunk.content)[i] :
                                        i \in 1..Len(FunctionNames(chunk.content))})
                    @@ @,
            !.symbol_to_file =
                [sym \in {FunctionNames(chunk.content)[i] :
                             i \in 1..Len(FunctionNames(chunk.content))} |-> chunk.file_path]
                    @@ @]

RECURSIVE CollectExports(_, _, _)
\* analyze_project's first pass over chunks.values(), from the i-th on.
CollectExports(d, values, i) ==
    IF i > Len(values) THEN d
    ELSE CollectExports(IF values[i].language = "python"
                        THEN _extract_python_exports(d, values[i])
                        ELSE d,
                        values, i + 1)

\* The edges the second pass adds for one fragment: from its file to the
\* file of every imported name that symbol_to_file knows, unless that is the
\* fragment's own file.
ImportEdges(d, chunk) ==
    {<<chunk.file_path, d.symbol_to_file[Imports(chunk.content)[i]]>> :
        i \in {j \in 1..Len(Imports(chunk.content)) :
                  /\ Imports(chunk.content)[j] \in DOMAIN d.symbol_to_file
                  /\ d.symbol_to_file[Imports(chunk.content)[j]] # chunk.file_path}}

\* analyze_project's second pass: every fragment's file becomes a node, every
\* import that resolves an edge (add_edge adds its two ends as nodes).
BuildGraph(d, values) ==
    LET new == UNION {ImportEdges(d, values[i]) : i \in 1..Len(values)} IN
    [d EXCEPT !.nodes = @ \cup {values[i].file_path : i \in 1..Len(values)}
                          \cup {e[1] : e \in new} \cup {e[2] : e \in new},
              !.edges = @ \cup new]

\* dependency_analyzer.analyze_project(chunks), values being chunks.values().
analyze_project(d, values) == BuildGraph(CollectExports(d, values, 1), values)

RECURSIVE DictOrder(_, _)
\* The keys of the dictionary filled in the order of ids: each key once, at
\* the place of its first insertion.
DictOrder(ids, seen) ==
    IF ids = <<>> THEN <<>>
    ELSE IF Head(ids) \in seen THEN DictOrder(Tail(ids), seen)
    ELSE <<Head(ids)>> \o DictOrder(Tail(ids), seen \cup {Head(ids)})

\* self.chunks.values() after index_project filled self.chunks.
ChunkValues(self) ==
    [i \in 1..Len(DictOrder(self.chunk_ids, {})) |->
        self.chunks[DictOrder(self.chunk_ids, {})[i]]]

\* nx.all_neighbors(graph, file_path): predecessors and successors.
AllNeighbors(edges, file_path) ==
    {e[2] : e \in {x \in edges : x[1] = file_path}}
        \cup {e[1] : e \in {x \in edges : x[2] = file_path}}

\* graph.reverse()
Reverse(edges) == {<<e[2], e[1]>> : e \in edges}

RECURSIVE Within(_, _, _)
\* The nodes that a path of at most hops edges leads to from a node of from.
Within(edges, from, hops) ==
    IF hops = 0 THEN from
    ELSE Within(edges, from \cup {e[2] : e \in {x \in edges : x[1] \in from}}, hops - 1)

\* The targets of nx.single_source_shortest_path(graph, file_path,
\* cutoff=depth) whose path has `len(path) <= depth`: a path lists its nodes,
\* the source among them, so it has at most depth - 1 edges.
ShortPathTargets(edges, file_path, depth) ==
    IF depth < 1 THEN {} ELSE Within(edges, {file_path}, depth - 1)

\* get_related_files(file_path, depth) on the analyzer d.
get_related_files(d, file_path, depth) ==
    IF file_path \notin d.nodes THEN {}
    ELSE AllNeighbors(d.edges, file_path)
             \cup (IF depth > 1 THEN ShortPathTargets(d.edges, file_path, depth) ELSE {})
             \cup ShortPathTargets(Reverse(d.edges), file_path, depth)

----------------------------------------------------------------------------
(* A project whose index holds more fragments than one search returns: five *)
(* modules of three functions each, and g.py, which imports the name they   *)
(* define.  One object is constructed for it (no cache exists); it indexes  *)
(* the project, again after a file was deleted, and answers context         *)
(* queries.                                                                 *)

MaxDepTokens == 45   \* max_tokens runs over the last DepBudgets values up to MaxDepTokens

DepBudgets == 6      \* the number of budgets tried

PyThree == <<"def", "{", "}", "\n", "def", "{", "}", "\n", "def", "{", "}">>

PyImport == <<"import f">>

\* The files of the project in the order in which the directory lists them.
DepListing == << <<"m1.py">>, <<"m2.py">>, <<"m3.py">>, <<"m4.py">>, <<"m5.py">>, <<"g.py">> >>

DepPaths == {DepListing[i] : i \in 1..Len(DepListing)}

DepFiles ==
    [path \in DepPaths |->
        [exists |-> TRUE, mtime |-> 0,
         content |-> IF path = <<"g.py">> THEN PyImport ELSE PyThree]]

\* The paths of S in the order of the listing.
Listed(S) == SelectSeq(DepListing, LAMBDA path : path \in S)

\* A sequence back to front.
Backwards(o) == [i \in 1..Len(o) |-> o[Len(o) + 1 - i]]

DepInit ==
    /\ HarnessIdle
    /\ fs = [p \in Projects |-> DepFiles]
    /\ now = 0
    /\ cache = EmptyCache
    /\ inst = [p \in Projects |-> WithAnalyzer(NewInst, NewAnalyzer)]
    /\ registered = [p \in Projects |-> TRUE]
    /\ last = Idle
    /\ found = NoFound

\* index_project() with its call of analyze_project on the object's own
\* analyzer, and its _save_cache.
AnalyzedPass(p, r) ==
    /\ inst' = [inst EXCEPT ![p] =
                   [r.self EXCEPT !.dependency_analyzer =
                       analyze_project(inst[p].dependency_analyzer, ChunkValues(r.self))]]
    /\ cache' = _save_cache(r.self, cache, fs[p], Root(p))

\* self.index_project() on the object of p.
DepIndexProject(p) ==
    /\ AnalyzedPass(p, index_project(inst[p], fs[p], Root(p),
                                     Listed(Indexable(fs[p], Root(p))), "none"))
    /\ last' = [Idle EXCEPT !.op = "index", !.p = p, !.indexed = TRUE]
    /\ found' = NoFound
    /\ UNCHANGED <<cin, cout, fs, now, registered>>

\* The queries of this model: each vector first in turn, with or without an
\* editing word, the set files_for_full_content iterated in listing order or
\* against it.  A query is the last call of a behaviour.
DepNext ==
    \/ /\ ~found.called
       /\ \E p \in Projects : DepIndexProject(p)
    \/ /\ ~found.called
       /\ \E p \in Projects :
              /\ \A path \in DepPaths : fs[p][path].exists
              /\ \E path \in DepPaths : DeleteFile(p, path)
    \/ /\ ~found.called
       /\ \E p \in Projects, edit \in BOOLEAN,
             max_tokens \in (MaxDepTokens - DepBudgets + 1)..MaxDepTokens :
              \E q \in PlainQueries(Len(inst[p].index.vecs)) :
                  \E order \in {Listed(FilesForFullContent(
                                           search(inst[p], q, SearchK, NoPath).result, edit)),
                                 Backwards(Listed(FilesForFullContent(
                                           search(inst[p], q, SearchK, NoPath).result, edit)))} :
                      QueryContext(p, q, edit, {}, NoPath, max_tokens, order)

SpecDeps == DepInit /\ [][DepNext]_vars

----------------------------------------------------------------------------
(* Claims about the dependency analyzer.                                    *)

\* The fragments of file_path that the object holds.
FragmentsOf(self, file_path) ==
    {id \in DOMAIN self.chunks : self.chunks[id].file_path = file_path}

\* The budget of the answered query has room for a fragment of file_path
\* beside what the result r holds (estimated_tokens rounds down).
RoomFor(self, file_path, r) ==
    \E id \in FragmentsOf(self, file_path) :
        r.estimated_tokens * TokenChars + (TokenChars - 1) + ChunkChars(self.chunks[id])
            <= cin.max_tokens * TokenChars

\* Every indexed neighbour of a file selected for full content, that is not
\* itself selected, is among the partial files of r when the budget has room.
NeighboursSurfaced(self, relevant_chunks, r) ==
    \A file_path \in FullContentSet(relevant_chunks, cin.edit, cin.ui_files) :
        \A other \in get_related_files(self.dependency_analyzer, file_path, 1)
                         \ FullContentSet(relevant_chunks, cin.edit, cin.ui_files) :
            RoomFor(self, other, r) =>
                \E i \in 1..Len(r.partial_files) : r.partial_files[i] = other

\* C22: for every file selected for full content, each file that imports it
\* or is imported by it appears in the result of get_relevant_context_smart
\* as a partial file whenever the character budget is not exhausted.
C22_NeighboursSurfaced ==
    (found.called /\ found.op = "context" /\ ~found.raised) =>
        NeighboursSurfaced(inst[last.p],
                           search(inst[last.p], cin.q, SearchK, cin.current_file).result,
                           found.result)

----------------------------------------------------------------------------
(* get_related_files alone, on every graph of a few files.  cin holds the   *)
(* analyzer's graph and the arguments, cout what the call returned.  The    *)
(* files are numbered; analyze_project adds no edge from a file to itself.  *)

MaxNodes == 3        \* the graphs have up to MaxNodes files

MaxDepth == 3        \* depth runs 1..MaxDepth

\* The graphs over the nodes ns.
GraphsOn(ns) ==
    {[NewAnalyzer EXCEPT !.nodes = ns, !.edges = es] :
        es \in SUBSET {e \in ns \X ns : e[1] # e[2]}}

GraphInit ==
    /\ cin \in {[d |-> d, file_path |-> file_path, depth |-> depth] :
                  d \in UNION {GraphsOn(ns) : ns \in SUBSET (1..MaxNodes)},
                  file_path \in 1..MaxNodes, depth \in 1..MaxDepth}
    /\ cout = [called |-> FALSE, related |-> {}]
    /\ SystemIdle

\* dependency_analyzer.get_related_files(file_path, depth)
GetRelatedFiles ==
    /\ ~cout.called
    /\ cout' = [called |-> TRUE,
                related |-> get_related_files(cin.d, cin.file_path, cin.depth)]
    /\ UNCHANGED <<cin, sysVars>>

GraphNext == GetRelatedFiles

SpecGraph == GraphInit /\ [][GraphNext]_vars

\* The files within depth edges of file_path, forwards or backwards, and its
\* neighbours; file_path itself is left aside.
RelatedWithin(d, file_path, depth) ==
    (AllNeighbors(d.edges, file_path)
        \cup Within(d.edges, {file_path}, depth)
        \cup Within(Reverse(d.edges), {file_path}, depth)) \ {file_path}

\* C23: get_related_files(file, depth), depth >= 1, returns the file's forward
\* and reverse neighbours and every node reachable from it within depth hops
\* in either direction, and the empty set for a file that is no node.
C23_RelatedWithinDepth ==
    cout.called =>
        IF cin.file_path \notin cin.d.nodes THEN cout.related = {}
        ELSE cout.related \ {cin.file_path}
                 = RelatedWithin(cin.d, cin.file_path, cin.depth)

\* Every node, edge and table entry of the analyzer d is one of fresh.
DerivedFrom(d, fresh) ==
    /\ d.nodes \subseteq fresh.nodes
    /\ d.edges \subseteq fresh.edges
    /\ \A sym \in DOMAIN d.symbol_to_file :
           /\ sym \in DOMAIN fresh.symbol_to_file
           /\ d.symbol_to_file[sym] = fresh.symbol_to_file[sym]
    /\ \A file_path \in DOMAIN d.file_to_symbols :
           /\ file_path \in DOMAIN fresh.file_to_symbols
           /\ d.file_to_symbols[file_path] \subseteq fresh.file_to_symbols[file_path]
    /\ \A component \in DOMAIN d.ui_dependencies :
           /\ component \in DOMAIN fresh.ui_dependencies
           /\ d.ui_dependencies[component] \subseteq fresh.ui_dependencies[component]

\* C24: after every index_project call, also a second one on the same object
\* after files changed or were removed, the dependency graph and the symbol
\* and component tables hold only what derives from the fragments of that
\* call.
C24_GraphOfThisPassOnly ==
    \A p \in Projects :
        (last.op = "index" /\ last.p = p) =>
            DerivedFrom(inst[p].dependency_analyzer,
                        analyze_project(NewAnalyzer, ChunkValues(inst[p])))

----------------------------------------------------------------------------
(* One index_project call in which files fail.  A file fails when its       *)
(* read_text raises (the paths of unreadable, chosen per call) or when its  *)
(* chunking raises (five lines that are no Python: the sliding window of    *)
(* _chunk_generic gets the step 0).  cin holds what was chosen for the      *)
(* call.                                                                    *)

PyFive == <<"}", "\n", "}", "\n", "}", "\n", "}", "\n", "}">>

PassChoices == {PyTwo, PyOne, PyFive}

\* What the loop makes of the files when read_text raises for the paths of
\* unreadable: the handler of such a file is entered before anything of it
\* is chunked, as for a file whose text is empty the chunker is not called.
AsRead(files, unreadable) ==
    [path \in DOMAIN files |->
        IF path \in unreadable THEN [files[path] EXCEPT !.content = <<>>] ELSE files[path]]

PassInit ==
    /\ HarnessIdle
    /\ fs \in [Projects -> [ProjectPaths -> {NoFile} \cup
                                {[exists |-> TRUE, content |-> c, mtime |-> 0] :
                                    c \in PassChoices}]]
    /\ now = 0
    /\ cache = EmptyCache
    /\ inst = [p \in Projects |-> NewInst]
    /\ registered = [p \in Projects |-> TRUE]
    /\ last = Idle
    /\ found = NoFound

\* self.index_project() on the new object of p.
PassIndexProject(p, unreadable, failing) ==
    /\ last.op # "index"
    /\ cin' = [unreadable |-> unreadable, failing |-> failing]
    /\ inst' = [inst EXCEPT ![p] =
                   index_project(inst[p], AsRead(fs[p], unreadable), Root(p), Listing(p),
                                 failing).self]
    /\ cache' = _save_cache(inst'[p], cache, fs[p], Root(p))
    /\ last' = [Idle EXCEPT !.op = "index", !.p = p, !.indexed = TRUE]
    /\ found' = NoFound
    /\ UNCHANGED <<cout, fs, now, registered>>

PassNext ==
    \E p \in Projects :
        \E unreadable \in SUBSET Indexable(fs[p], Root(p)), failing \in Failures :
            PassIndexProject(p, unreadable, failing)

SpecPass == PassInit /\ [][PassNext]_vars

\* The files of the pass that failed: unreadable, or chunked with an error.
FailedFiles(files, root, unreadable) ==
    unreadable
        \cup {path \in Indexable(files, root) :
                 /\ HasText(files[path].content)
                 /\ chunk_by_functions(files[path].content, path).raised}

\* The files without those of gone.
Without(files, gone) ==
    [path \in DOMAIN files |-> IF path \in gone THEN NoFile ELSE files[path]]

\* The object self is what index_project makes of the files without those
\* that failed, and holds no fragment of a failed file.
IndexedAsIfAbsent(self, files, root, failed) ==
    /\ self = index_project(NewInst, Without(files, failed), root,
                            RglobOrder(Indexable(Without(files, failed), root)),
                            cin.failing).self
    /\ \A id \in DOMAIN self.chunks : self.chunks[id].file_path \notin failed
    /\ \A i \in 1..Len(self.chunk_ids) :
           /\ self.chunk_ids[i] \in DOMAIN self.chunks
           /\ self.chunks[self.chunk_ids[i]].file_path \notin failed
    /\ Len(self.index.vecs) = Len(self.chunk_ids)

C25_UnreadableLeftOut ==
    \E p \in Projects :
        /\ last.op = "index" /\ last.p = p /\ cin.failing = "none"
        /\ Len(Listing(p)) = 2
        /\ cin.unreadable = {Listing(p)[1]}
        /\ \E id \in DOMAIN inst[p].chunks : inst[p].chunks[id].file_path = Listing(p)[2]

----------------------------------------------------------------------------
(* Claims about the fallback chunker.                                       *)

\* The paths of the snapshot that chunk_by_functions hands to _chunk_generic
\* at once: those of no language with a strategy of its own.
GenericPaths == {path \in DOMAIN cin : detect_language(path) = "markdown"}

\* The lines a fragment spans.
SpanLines(chunk) == chunk.end_line - chunk.start_line + 1

\* The fragments chunks are windows of at most 50 lines, each sharing its
\* first 5 lines (all its lines, if it has fewer) with the one before it,
\* and every line of lines that is not blank lies in one of them.
WindowsCover(lines, chunks) ==
    /\ \A k \in 1..Len(chunks) : SpanLines(chunks[k]) <= WindowLines
    /\ \A k \in 1..(Len(chunks) - 1) :
           chunks[k].end_line - chunks[k + 1].start_line + 1
               = Min(WindowOverlap, SpanLines(chunks[k + 1]))
    /\ \A i \in 0..(Len(lines) - 1) :
           HasText(At(lines, i)) =>
               \E k \in 1..Len(chunks) :
                   chunks[k].start_line <= i /\ i <= chunks[k].end_line

\* C26: for every file with a line that is not blank, of any number of
\* lines, _chunk_generic returns without raising, and its fragments are
\* windows of at most 50 lines, consecutive ones overlapping by 5 lines,
\* that together hold every non-blank line of the file.
C26_GenericWindowsCover ==
    cout.called =>
        \A path \in GenericPaths :
            HasText(cin[path]) =>
                /\ ~cout.results[path].raised
                /\ WindowsCover(SplitLines(cin[path]), cout.results[path].chunks)

----------------------------------------------------------------------------
(* index_project step by step.  Two threads each run index_project() once   *)
(* on the object of the project, with no lock between them; a step is one   *)
(* write to the object or to a file of the cache directory.  The project    *)
(* holds one file, a.py, which may be rewritten at any moment.  cin[t]      *)
(* holds the locals of thread t: where it is (pc), all_chunks, embeddings,  *)
(* the place i in all_chunks, and the clock when it read the files.  cout   *)
(* records whether two executions have overlapped, and the reading time of  *)
(* the execution that wrote metadata.json last.                             *)

MaxRaceWrites == 1   \* a.py is rewritten at most MaxRaceWrites times

Threads == {1, 2}

RacePath == <<"a.py">>

\* The texts a.py is rewritten with: two functions, or nothing.
RaceChoices == {PyTwo, <<>>}

NotStarted == [pc |-> "idle", all_chunks |-> <<>>, embeddings |-> <<>>, i |-> 0, read_at |-> 0]

\* Thread t is inside index_project.
Running(t) == cin[t].pc \notin {"idle", "done"}

RaceInit ==
    /\ cin = [t \in Threads |-> NotStarted]
    /\ cout = [overlapped |-> FALSE, saved_read_at |-> 0]
    /\ fs = [p \in Projects |->
                [path \in ProjectPaths |->
                    IF path = RacePath
                    THEN [exists |-> TRUE, content |-> PyOne, mtime |-> 0]
                    ELSE NoFile]]
    /\ now = 0
    /\ cache = EmptyCache
    /\ inst = [p \in Projects |-> NewInst]
    /\ registered = [p \in Projects |-> TRUE]
    /\ last = Idle
    /\ found = NoFound

\* The file is rewritten by an editor while the index may be under way.
RaceWrite(p, content) ==
    /\ now < MaxRaceWrites
    /\ now' = now + 1
    /\ fs' = [fs EXCEPT ![p][RacePath] = [exists |-> TRUE, content |-> content, mtime |-> now + 1]]
    /\ UNCHANGED <<cin, cout, cache, inst, registered, last, found>>

\* The loop over rglob: the files are read and chunked into the local
\* all_chunks.
RaceCollect(p, t) ==
    /\ cin[t].pc = "idle"
    /\ cin' = [cin EXCEPT ![t] = [NotStarted EXCEPT !.pc = "reset_chunks",
                                                    !.all_chunks = Collect(fs[p], Listing(p)),
                                                    !.read_at = now]]
    /\ cout' = [cout EXCEPT !.overlapped = @ \/ \E u \in Threads \ {t} : Running(u)]
    /\ UNCHANGED <<fs, now, cache, inst, registered, last, found>>

\* self.chunks = {}
RaceResetChunks(p, t) ==
    /\ cin[t].pc = "reset_chunks"
    /\ inst' = [inst EXCEPT ![p].chunks = <<>>]
    /\ cin' = [cin EXCEPT ![t].pc = "reset_ids"]
    /\ UNCHANGED <<cout, fs, now, cache, registered, last, found>>

\* embeddings = [] and self.chunk_ids = []
RaceResetIds(p, t) ==
    /\ cin[t].pc = "reset_ids"
    /\ inst' = [inst EXCEPT ![p].chunk_ids = <<>>]
    /\ cin' = [cin EXCEPT ![t].pc = "loop", ![t].embeddings = <<>>, ![t].i = 1]
    /\ UNCHANGED <<cout, fs, now, cache, registered, last, found>>

\* self.chunks[chunk.chunk_id] = chunk and embeddings.append(embedding)
RacePut(p, t) ==
    /\ cin[t].pc = "loop" /\ cin[t].i <= Len(cin[t].all_chunks)
    /\ inst' = [inst EXCEPT ![p].chunks =
                   (cin[t].all_chunks[cin[t].i].chunk_id :> cin[t].all_chunks[cin[t].i]) @@ @]
    /\ cin' = [cin EXCEPT ![t].pc = "append",
                          ![t].embeddings = Append(@, Embed(cin[t].all_chunks[cin[t].i]))]
    /\ UNCHANGED <<cout, fs, now, cache, registered, last, found>>

\* self.chunk_ids.append(chunk.chunk_id)
RaceAppend(p, t) ==
    /\ cin[t].pc = "append"
    /\ inst' = [inst EXCEPT ![p].chunk_ids = Append(@, cin[t].all_chunks[cin[t].i].chunk_id)]
    /\ cin' = [cin EXCEPT ![t].pc = "loop", ![t].i = @ + 1]
    /\ UNCHANGED <<cout, fs, now, cache, registered, last, found>>

\* `if embeddings:` self.index = the index of the local embeddings.
RaceBuildIndex(p, t) ==
    /\ cin[t].pc = "loop" /\ cin[t].i > Len(cin[t].all_chunks)
    /\ inst' = [inst EXCEPT ![p].index =
                   IF cin[t].embeddings # <<>>
                   THEN [built |-> TRUE, vecs |-> cin[t].embeddings]
                   ELSE @]
    /\ cin' = [cin EXCEPT ![t].pc = "save_chunks"]
    /\ UNCHANGED <<cout, fs, now, cache, registered, last, found>>

\* _save_cache: pickle.dump(self.chunks) into chunks.pkl
RaceSaveChunks(p, t) ==
    /\ cin[t].pc = "save_chunks"
    /\ cache' = [cache EXCEPT !.chunks = [present |-> TRUE, corrupt |-> FALSE,
                                          data |-> inst[p].chunks]]
    /\ cin' = [cin EXCEPT ![t].pc = "save_index"]
    /\ UNCHANGED <<cout, fs, now, inst, registered, last, found>>

\* _save_cache: `if self.index:` faiss.write_index into index.faiss
RaceSaveIndex(p, t) ==
    /\ cin[t].pc = "save_index"
    /\ cache' = IF inst[p].index.built
                THEN [cache EXCEPT !.index = [present |-> TRUE, corrupt |-> FALSE,
                                              data |-> inst[p].index.vecs]]
                ELSE cache
    /\ cin' = [cin EXCEPT ![t].pc = "save_deps"]
    /\ UNCHANGED <<cout, fs, now, inst, registered, last, found>>

\* _save_cache: pickle.dump(self.dependency_analyzer) into dependencies.pkl
RaceSaveDeps(p, t) ==
    /\ cin[t].pc = "save_deps"
    /\ cache' = [cache EXCEPT !.deps = [present |-> TRUE, corrupt |-> FALSE, data |-> <<>>]]
    /\ cin' = [cin EXCEPT ![t].pc = "save_meta"]
    /\ UNCHANGED <<cout, fs, now, inst, registered, last, found>>

\* _save_cache: project_mtime is computed from the files as they are now, and
\* metadata.json is written with it and self.chunk_ids; index_project returns.
RaceSaveMeta(p, t) ==
    /\ cin[t].pc = "save_meta"
    /\ cache' = IF Tracked(fs[p], Root(p)) = {} THEN cache
                ELSE [cache EXCEPT !.meta =
                         [ present |-> TRUE, corrupt |-> FALSE,
                           project_mtime |-> MaxMtime(fs[p], Tracked(fs[p], Root(p))),
                           chunk_ids |-> inst[p].chunk_ids ]]
    /\ cin' = [cin EXCEPT ![t].pc = "done"]
    /\ cout' = [cout EXCEPT !.saved_read_at = cin[t].read_at]
    /\ last' = [Idle EXCEPT !.op = "index", !.p = p, !.indexed = TRUE]
    /\ UNCHANGED <<fs, now, inst, registered, found>>

RaceNext ==
    \/ \E p \in Projects, content \in RaceChoices : RaceWrite(p, content)
    \/ \E p \in Projects, t \in Threads : RaceCollect(p, t)
    \/ \E p \in Projects, t \in Threads : RaceResetChunks(p, t)
    \/ \E p \in Projects, t \in Threads : RaceResetIds(p, t)
    \/ \E p \in Projects, t \in Threads : RacePut(p, t)
    \/ \E p \in Projects, t \in Threads : RaceAppend(p, t)
    \/ \E p \in Projects, t \in Threads : RaceBuildIndex(p, t)
    \/ \E p \in Projects, t \in Threads : RaceSaveChunks(p, t)
    \/ \E p \in Projects, t \in Threads : RaceSaveIndex(p, t)
    \/ \E p \in Projects, t \in Threads : RaceSaveDeps(p, t)
    \/ \E p \in Projects, t \in Threads : RaceSaveMeta(p, t)

SpecRace == RaceInit /\ [][RaceNext]_vars

----------------------------------------------------------------------------
(* Claims about overlapping executions.                                     *)

\* No execution is under way, and one has returned.
Settled == (\A t \in Threads : ~Running(t)) /\ (\E t \in Threads : cin[t].pc = "done")

\* The id list and the vector index of the object are of one length.
SameLength(self) == Len(self.chunk_ids) = Len(self.index.vecs)

\* The files of the cache directory fit one another: an id per vector, and a
\* fragment for every id.
FilesAgree(c) ==
    (c.chunks.present /\ c.index.present /\ c.meta.present) =>
        /\ Len(c.meta.chunk_ids) = Len(c.index.data)
        /\ \A i \in 1..Len(c.meta.chunk_ids) : c.meta.chunk_ids[i] \in DOMAIN c.chunks.data

\* C27: two overlapping index_project executions can leave the persisted
\* files mutually inconsistent or the id list and the vector index of
\* different lengths; executions that do not overlap never leave such a
\* state.
C27_OnlyOverlapDiverges ==
    \A p \in Projects :
        (Settled /\ ~cout.overlapped) => (SameLength(inst[p]) /\ FilesAgree(cache))

\* Two executions overlapped and left the id list longer than the index.
C27_OverlapDiverged ==
    \E p \in Projects : Settled /\ cout.overlapped /\ ~SameLength(inst[p])

\* Two executions overlapped and left files that do not fit one another.
C27_OverlapFilesDisagree == Settled /\ cout.overlapped /\ ~FilesAgree(cache)

\* C30: the persisted timestamp never covers a modification that the index
\* has not seen: when a tracked file was modified after index_project read
\* it, be it before _save_cache computes the timestamp, the next _load_cache
\* finds the cache stale.
C30_TimestampCoversOnlySeen ==
    \A p \in Projects :
        ( /\ Settled /\ ~cout.overlapped /\ cache.meta.present
          /\ \E path \in Tracked(fs[p], Root(p)) : fs[p][path].mtime > cout.saved_read_at )
            => ~CacheUsable(cache, fs[p], Root(p))

----------------------------------------------------------------------------
(* Claims about the files of an editing query.                              *)

\* The files of the fragments search returns for the query of cin on the
\* object of the project the last operation was on.
SearchedFiles ==
    LET r == search(inst[last.p], cin.q, SearchK, cin.current_file)
    IN  IF r.raised THEN {} ELSE {r.result[i].file_path : i \in 1..Len(r.result)}

\* get_relevant_context_smart was called and returned.
ContextAnswered == found.called /\ found.op = "context" /\ ~found.raised

\* C29: full_files and partial_files are always disjoint, and for a query
\* with an editing word partial_files is empty, whatever the index and the
\* budget: a file of the search results that is not given in full (it does
\* not fit, or is no longer on disk) gives none of its fragments either.
C29_EditQueryNoPartialFiles ==
    ContextAnswered =>
        /\ PathsOf(found.result.full_files) \cap PathsOf(found.result.partial_files) = {}
        /\ cin.edit =>
               /\ found.result.partial_files = <<>>
               /\ PathsOf(found.result.full_files) \subseteq SearchedFiles
               /\ DOMAIN found.result.all_file_contents = PathsOf(found.result.full_files)

\* C29 witness: an editing query was answered whose search results hold a
\* fragment of a file that is no longer on disk; the fragment would fit in
\* what the full files leave of the budget, and no fragment was returned.
C29_Witness ==
    /\ ContextAnswered /\ cin.edit
    /\ \E id \in DOMAIN inst[last.p].chunks :
           /\ inst[last.p].chunks[id].file_path \in SearchedFiles
           /\ ~fs[last.p][inst[last.p].chunks[id].file_path].exists
           /\ FullChars(fs[last.p], cin.order, Len(cin.order), FullOf(found.result))
                  + ChunkChars(inst[last.p].chunks[id]) <= cin.max_tokens * TokenChars
    /\ found.result.partial_files = <<>>

\* An editing query was answered whose search results hold a file on disk
\* that did not fit in the budget; no fragment of it was returned.
C29_MisfitGivesNoFragment ==
    /\ ContextAnswered /\ cin.edit
    /\ \E big \in SearchedFiles :
           fs[last.p][big].exists /\ big \notin PathsOf(found.result.full_files)
    /\ found.result.partial_files = <<>>

----------------------------------------------------------------------------
(* index_project on projects at several places of the disk.  cin.root is    *)
(* the absolute path of the project, as /project/load resolves it; the      *)
(* files are given by their paths below it.                                 *)

\* The places of the project: under home, under a directory called build,
\* under a directory called dist.
IgnoreRoots ==
    { <<"home", "/", "A", "/">>,
      <<"home", "/", "build", "/", "A", "/">>,
      <<"dist", "/", "A", "/">> }

\* The files of the project, by their paths below the root.
IgnorePaths ==
    { <<"a.py">>, <<"b.py">>, <<"src", "/", "a.py">>, <<"build", "/", "a.py">> }

\* The modification times the files start with.
IgnoreTimes == {0, 1}

IgnoreInit ==
    /\ cin \in {[root |-> root] : root \in IgnoreRoots}
    /\ cout = <<>>
    /\ fs \in [Projects -> [IgnorePaths -> {NoFile} \cup
                                {[exists |-> TRUE, content |-> PyOne, mtime |-> t] :
                                    t \in IgnoreTimes}]]
    /\ now = 1
    /\ cache = EmptyCache
    /\ inst = [p \in Projects |-> NewInst]
    /\ registered = [p \in Projects |-> TRUE]
    /\ last = Idle
    /\ found = NoFound

\* self.index_project() on the new object of p, the project being at cin.root.
IgnoreIndexProject(p) ==
    /\ last.op # "index"
    /\ inst' = [inst EXCEPT ![p] =
                   index_project(inst[p], fs[p], cin.root,
                                 RglobOrder(Indexable(fs[p], cin.root)), "none").self]
    /\ cache' = _save_cache(inst'[p], cache, fs[p], cin.root)
    /\ last' = [Idle EXCEPT !.op = "index", !.p = p, !.indexed = TRUE]
    /\ UNCHANGED <<cin, cout, fs, now, registered, found>>

IgnoreNext == \E p \in Projects : IgnoreIndexProject(p)

SpecIgnore == IgnoreInit /\ [][IgnoreNext]_vars

----------------------------------------------------------------------------
(* Claims about the ignore policy.                                          *)

\* The files on disk that the policy keeps when it is given the part of the
\* path below the project root only.
KeptBelowRoot(files) ==
    {path \in DOMAIN files : files[path].exists /\ ~_should_ignore_file(path)}

\* The files that have a fragment in the object self.
FilesIndexed(self) == {self.chunks[id].file_path : id \in DOMAIN self.chunks}

\* C28: the ignore policy depends only on the part of a path below the
\* project root: wherever the root is, index_project indexes the files with
\* text and a supported suffix that have no ignored directory between the
\* root and themselves, and the persisted timestamp is the newest
\* modification time of the files that have no such directory.
C28_OnlyBelowRootCounts ==
    \A p \in Projects :
        last.op = "index" =>
            /\ FilesIndexed(inst[p]) =
                   {path \in KeptBelowRoot(fs[p]) :
                       Suffix(path) \in supported_extensions /\ HasText(fs[p][path].content)}
            /\ KeptBelowRoot(fs[p]) # {} =>
                   /\ cache.meta.present
                   /\ cache.meta.project_mtime = MaxMtime(fs[p], KeptBelowRoot(fs[p]))

\* A project under home was indexed: a.py and src/a.py are in the index and
\* build/a.py, which is on disk too, is not.
C28_BelowRootIgnored ==
    \E p \in Projects :
        /\ last.op = "index" /\ cin.root = <<"home", "/", "A", "/">>
        /\ fs[p][<<"build", "/", "a.py">>].exists
        /\ FilesIndexed(inst[p]) = {<<"a.py">>, <<"src", "/", "a.py">>}

====
